---------------------------- MODULE Spec2Model ----------------------------
(***************************************************************************)
(* Chunked PDF summarisation with a document cache and a chunk cache.      *)
(*                                                                         *)
(* Strings are sequences of one-character strings, so that splitting on    *)
(* whitespace, joining and the hand-written JSON framing of the streaming  *)
(* handler are computed, not assumed.                                      *)
(*                                                                         *)
(* Spec runs requests one after the other, SpecConcurrent two overlapping  *)
(* requests, SpecPage the page with the handler it calls, and SpecPure the *)
(* pure functions on their own.                                            *)
(***************************************************************************)
EXTENDS Integers, Sequences, FiniteSets, TLC

(***************************************************************************)
(* Bounds of the model.                                                    *)
(***************************************************************************)
\* longest text given to splitIntoChunks in SpecPure
MaxTextLen == 4
\* largest maxWords given to splitIntoChunks in SpecPure
MaxWordsArg == 2
\* largest number of chunk results given to the assembly step in SpecPure
MaxItems == 3

(***************************************************************************)
(* Characters and strings.                                                 *)
(***************************************************************************)
\* the characters the regular expression \s matches (two of them suffice)
Whitespace == {" ", "\n"}

\* characters of an extracted text
TextChar == {"a", "b"} \cup Whitespace

IsSpace(c) == c \in Whitespace

\* all strings over S of length at most n
StringsUpTo(S, n) == UNION {[1..k -> S] : k \in 0..n}

(***************************************************************************)
(* String.prototype.split(/\s+/): the text is cut at every maximal run of  *)
(* whitespace.  A run at the start or the end of the text leaves an empty  *)
(* string before or after it, and the empty text gives one empty string.   *)
(* `done` are the finished words, `cur` the word being read, `inRun` says  *)
(* that the previous character was whitespace.                             *)
(***************************************************************************)
RECURSIVE SplitScan(_, _, _, _, _)
SplitScan(text, k, done, cur, inRun) ==
    IF k > Len(text) THEN Append(done, cur)
    ELSE IF IsSpace(text[k])
         THEN IF inRun THEN SplitScan(text, k + 1, done, cur, TRUE)
              ELSE SplitScan(text, k + 1, Append(done, cur), <<>>, TRUE)
         ELSE SplitScan(text, k + 1, done, Append(cur, text[k]), FALSE)

SplitWhitespace(text) == SplitScan(text, 1, <<>>, <<>>, FALSE)

\* Array.prototype.join(sep) on an array of strings
RECURSIVE JoinWith(_, _)
JoinWith(parts, sep) ==
    IF Len(parts) = 0 THEN <<>>
    ELSE IF Len(parts) = 1 THEN parts[1]
    ELSE parts[1] \o sep \o JoinWith(Tail(parts), sep)

\* Array.prototype.slice(from, to) with zero-based from and exclusive to
Slice(arr, from, to) ==
    LET hi == IF to > Len(arr) THEN Len(arr) ELSE to
    IN  [k \in 1..(IF hi > from THEN hi - from ELSE 0) |-> arr[from + k]]

(***************************************************************************)
(* splitIntoChunks(text, maxWords): the loop  for (i = 0; i < words.length;*)
(* i += maxWords) chunks.push(words.slice(i, i + maxWords).join(" ")).     *)
(***************************************************************************)
RECURSIVE ChunkLoop(_, _, _, _)
ChunkLoop(words, i, maxWords, chunks) ==
    IF i < Len(words)
    THEN ChunkLoop(words, i + maxWords, maxWords,
                   Append(chunks, JoinWith(Slice(words, i, i + maxWords), <<" ">>)))
    ELSE chunks

splitIntoChunks(text, maxWords) ==
    ChunkLoop(SplitWhitespace(text), 0, maxWords, <<>>)


(***************************************************************************)
(* The assembly step of the three chunked handlers:                        *)
(*   chunkSummaries.sort((a, b) => a.index - b.index);                     *)
(*   fullSummary = chunkSummaries.map(c => c.content).join("\n\n");        *)
(* The sort is an insertion sort that keeps equal indices in their order   *)
(* (Array.prototype.sort is stable).                                       *)
(***************************************************************************)
\* faulty variant: the comparison reversed (b.index - a.index)
CompareIndexDescending(a, b) == b.index - a.index

CompareIndex(a, b) == a.index - b.index

RECURSIVE InsertSorted(_, _)
InsertSorted(sorted, x) ==
    IF Len(sorted) = 0 THEN <<x>>
    ELSE IF CompareIndex(sorted[Len(sorted)], x) > 0
         THEN Append(InsertSorted(SubSeq(sorted, 1, Len(sorted) - 1), x),
                     sorted[Len(sorted)])
         ELSE Append(sorted, x)

RECURSIVE SortByIndex(_)
SortByIndex(items) ==
    IF Len(items) = 0 THEN <<>>
    ELSE InsertSorted(SortByIndex(SubSeq(items, 1, Len(items) - 1)), items[Len(items)])

ParagraphSeparator == <<"\n", "\n">>

AssembleSummary(items) ==
    LET sorted == SortByIndex(items)
    IN  JoinWith([k \in 1..Len(sorted) |-> sorted[k].content], ParagraphSeparator)

(***************************************************************************)
(* The summarize handlers.  Three handlers split the text into chunks and  *)
(* share the collections "summaries" and "chunkSummaries":                 *)
(*   "summarizePdf"  pages/api/summarizePdf.js, second handler: writes the *)
(*                   response as hand-made JSON fragments (res.write)      *)
(*   "part_002"      unnamed/part_002, first handler: one JSON response    *)
(*   "route"         utils/fetchAndStoreReports.js, POST: a ReadableStream *)
(*                   of newline-delimited JSON records                     *)
(* The two older handlers that summarize the first characters of the text  *)
(* in one call (summarizePdf.js 19-78, part_002 159-218) are not modelled. *)
(***************************************************************************)
Handlers == {"summarizePdf", "part_002", "route"}

Streaming == {"summarizePdf", "route"}

\* The default of splitIntoChunks' maxWords, in units of 10 000 words: a
\* word of a model text stands for a block of 10 000 words.
MaxWordsSummarizePdf == 2
MaxWordsPart002 == 1
MaxWordsRoute == 2

DefaultMaxWords(h) ==
    CASE h = "summarizePdf" -> MaxWordsSummarizePdf
      [] h = "part_002"     -> MaxWordsPart002
      [] h = "route"        -> MaxWordsRoute

\* the PDFs a request can name, and the text pdf-parse extracts from each
PdfUrls == {"u1", "u2", "u3"}

\* words of the text of the PDF "u1"
DocWords == 3

\* "u1" is a text of DocWords words, "u2" a PDF without text, "u3" a PDF
\* whose text is whitespace only
PdfText(u) ==
    IF u = "u1"
    THEN JoinWith([k \in 1..DocWords |-> <<"a">>], <<" ">>)
    ELSE IF u = "u3" THEN <<" ">>
    ELSE <<>>

\* issue numbers used as document identity
Issues == {1}

\* message.content values the text-generation service can answer with; the
\* empty string stands for every content that is falsy in JavaScript
Replies == {<<>>, <<"A">>, <<"B">>}

\* request slots; the sequential specification uses the first one only
Procs == {1, 2}

\* requests started in one behaviour
MaxRequests == 2

VARIABLES
    summaries,      \* collection "summaries": issueNumber -> [summary, pdfUrl]
    chunkColl,      \* collection "chunkSummaries": <<issueNumber, chunkIndex>> -> summary
    req,            \* req[p]: the request running (or last run) in slot p; its fields
                    \* log, pre and preDoc are history: the operations it
                    \* attempted and the two caches as they were when it arrived
    started,        \* number of requests started so far
    last,           \* what the request before the current one did (history)
    cachedDb,       \* summarizePdf.js keeps its database handle (cachedClient, cachedDb)
    pure,           \* the pure-function evaluation of SpecPure
    page,           \* state of the page (pages/index.js): selectedSummary, records
    records,        \* the daily records in collection "summaries", in insertion order
    ingest,         \* the ingestion runs and the cron request
    search,         \* the search handler (searchRecords.js) and the record listing
    ui              \* the page's loadingSummaries and its requests in flight

vars == <<summaries, chunkColl, req, started, last, cachedDb, pure, page,
          records, ingest, search, ui>>

(***************************************************************************)
(* Collections.  findOne gives the stored document or null; updateOne with *)
(* {upsert: true} and $set creates the document or overwrites its fields.  *)
(***************************************************************************)
Has(coll, key) == key \in DOMAIN coll

\* faulty variant: an insert that leaves an existing document as it is
UpdateOneSetOnInsert(coll, key, doc) ==
    [k \in (DOMAIN coll) \cup {key} |-> IF k \in DOMAIN coll THEN coll[k] ELSE doc]

\* faulty variant: updateOne without {upsert: true} creates no document
UpdateOneWithoutUpsert(coll, key, doc) ==
    [k \in DOMAIN coll |-> IF k = key THEN doc ELSE coll[k]]

\* a write that replaces the collection by the one document
ReplaceCollection(coll, key, doc) == [k \in {key} |-> doc]

UpdateOneUpsert(coll, key, doc) ==
    [k \in (DOMAIN coll) \cup {key} |-> IF k = key THEN doc ELSE coll[k]]

\* JavaScript truthiness of a summary field: a non-empty string
Truthy(str) == str # <<>>

\* faulty variant: the chunk key without the issue number
ChunkKeyWithoutIssue(issueNumber, i) == <<1, i>>

\* the filter {issueNumber, chunkIndex: i} of the chunk collection
ChunkKey(issueNumber, i) == <<issueNumber, i>>

\* faulty variant: the lookup made under another key than the write
DocSummaryHitWrongKey(coll, issueNumber) ==
    Has(coll, issueNumber + 1) /\ Truthy(coll[issueNumber + 1].summary)

\* existingSummary?.summary  /  existingSummary && existingSummary.summary
DocSummaryHit(coll, issueNumber) ==
    Has(coll, issueNumber) /\ Truthy(coll[issueNumber].summary)

\* faulty variant: the lookup made with the one-based chunk number
ChunkSummaryHitOneBased(coll, issueNumber, i) ==
    Has(coll, <<issueNumber, i + 1>>) /\ Truthy(coll[<<issueNumber, i + 1>>])

\* faulty variant: stored chunk summaries are never taken
ChunkSummaryHitNever(coll, issueNumber, i) == FALSE

\* cachedChunk?.summary  /  cachedChunk && cachedChunk.summary
ChunkSummaryHit(coll, issueNumber, i) ==
    Has(coll, ChunkKey(issueNumber, i)) /\ Truthy(coll[ChunkKey(issueNumber, i)])

(***************************************************************************)
(* What a handler has sent.  A response body is the sequence of pieces     *)
(* written so far; `n` is a chunk count or a chunk index.                  *)
(***************************************************************************)
Piece(kind, n, content) == [kind |-> kind, n |-> n, content |-> content]

FixedErrorMessage == <<"Failed to summarize PDF">>

\* error.message of the error an operation throws
ErrorMessage(op) == <<op>>

LogEntry(op, index, content) == [op |-> op, index |-> index, content |-> content]

NoRequest ==
    [pc |-> "Idle", handler |-> "none", method |-> "none", pdfUrl |-> "", issueNumber |-> 0,
     chunks |-> <<>>, i |-> 0, chunkSummaries |-> <<>>, summaryText |-> <<>>,
     fullSummary |-> <<>>, status |-> 0, headersSent |-> FALSE, body |-> <<>>,
     ended |-> "no", failedOp |-> "none", failedIndex |-> -1,
     log |-> <<>>, pre |-> <<>>, preDoc |-> <<>>]

NoLast ==
    [pc |-> "Idle", handler |-> "none", pdfUrl |-> "", issueNumber |-> 0,
     failedOp |-> "none", failedIndex |-> -1, n |-> 0, preStored |-> {},
     calls |-> <<>>, clean |-> TRUE, inputs |-> {}]

Terminal == {"Done", "Failed", "Rejected"}

\* the chunk summaries stored for an issue, by chunk index
StoredChunks(coll, issueNumber) ==
    LET idx == {k[2] : k \in {key \in DOMAIN coll : key[1] = issueNumber}}
    IN  [j \in idx |-> coll[<<issueNumber, j>>]]

\* the summary stored for an issue, "" when there is none
StoredSummary(coll, issueNumber) ==
    IF Has(coll, issueNumber) THEN coll[issueNumber].summary ELSE <<>>

\* indices of the chunks of an issue with a usable (truthy) stored summary
CachedIndices(coll, issueNumber) ==
    {j \in DOMAIN StoredChunks(coll, issueNumber) : Truthy(coll[<<issueNumber, j>>])}

(***************************************************************************)
(* The catch block of each handler, entered when operation `op` (on chunk  *)
(* `index`, or -1) throws.  r is the request at that point.                *)
(*   part_002:      res.status(500).json({error: "Failed to summarize PDF"})*)
(*   summarizePdf:  the same while no byte has been written; afterwards    *)
(*                  res.write(`], "error": ${JSON.stringify(message)}}`)   *)
(*   route:         NextResponse.json({error: error.message}, 500) while   *)
(*                  the stream does not exist; an error inside the stream's*)
(*                  start() is outside the try block: the start promise    *)
(*                  rejects and the stream is errored, nothing is enqueued *)
(***************************************************************************)
\* faulty variant: summarizePdf.js without the test of res.headersSent
CaughtWithoutHeadersTest(r, op, index) ==
    LET f == [r EXCEPT !.pc = "Failed", !.failedOp = op, !.failedIndex = index]
    IN  CASE r.handler = "part_002" ->
               [f EXCEPT !.status = 500, !.ended = "end",
                         !.body = <<Piece("jsonError", 0, FixedErrorMessage)>>]
          [] r.handler = "summarizePdf" ->
               [f EXCEPT !.ended = "end",
                         !.body = Append(r.body, Piece("errorTail", 0, ErrorMessage(op)))]
          [] r.handler = "route" ->
               IF ~r.headersSent
               THEN [f EXCEPT !.status = 500, !.ended = "end",
                              !.body = <<Piece("jsonError", 0, ErrorMessage(op))>>]
               ELSE [f EXCEPT !.ended = "errored"]

\* faulty variant: after the first write the response is not ended
CaughtWithoutEnd(r, op, index) ==
    LET f == [r EXCEPT !.pc = "Failed", !.failedOp = op, !.failedIndex = index]
    IN  IF ~r.headersSent
        THEN [f EXCEPT !.status = 500, !.ended = "end",
                       !.body = <<Piece("jsonError", 0,
                                    IF r.handler = "route" THEN ErrorMessage(op)
                                    ELSE FixedErrorMessage)>>]
        ELSE [f EXCEPT !.body = Append(r.body, Piece("errorTail", 0, ErrorMessage(op)))]

Caught(r, op, index) ==
    LET f == [r EXCEPT !.pc = "Failed", !.failedOp = op, !.failedIndex = index]
    IN  CASE r.handler = "part_002" ->
               [f EXCEPT !.status = 500, !.ended = "end",
                         !.body = <<Piece("jsonError", 0, FixedErrorMessage)>>]
          [] r.handler = "summarizePdf" ->
               IF ~r.headersSent
               THEN [f EXCEPT !.status = 500, !.ended = "end",
                              !.body = <<Piece("jsonError", 0, FixedErrorMessage)>>]
               ELSE [f EXCEPT !.ended = "end",
                              !.body = Append(r.body, Piece("errorTail", 0, ErrorMessage(op)))]
          [] r.handler = "route" ->
               IF ~r.headersSent
               THEN [f EXCEPT !.status = 500, !.ended = "end",
                              !.body = <<Piece("jsonError", 0, ErrorMessage(op))>>]
               ELSE [f EXCEPT !.ended = "errored"]

Logged(r, op, index, content) ==
    [r EXCEPT !.log = Append(r.log, LogEntry(op, index, content))]

\* res.status(200).json({summary}) / res.end(JSON.stringify({summary})) /
\* NextResponse.json({summary})
RespondSummary(r, summary) ==
    [r EXCEPT !.pc = "Done", !.status = 200, !.ended = "end",
              !.body = <<Piece("jsonSummary", 0, summary)>>]

\* the first write of the streaming handlers, after the split
WriteStart(r) ==
    CASE r.handler = "summarizePdf" ->
           [r EXCEPT !.status = 200, !.headersSent = TRUE,
                     !.body = <<Piece("open", Len(r.chunks), <<>>)>>]
      [] r.handler = "route" ->
           [r EXCEPT !.status = 200, !.headersSent = TRUE,
                     !.body = <<Piece("startLine", Len(r.chunks), <<>>)>>]
      [] r.handler = "part_002" -> r

\* faulty variant: the progress record carries the one-based chunk number
WriteChunkOneBased(r, content) ==
    CASE r.handler = "summarizePdf" ->
           [r EXCEPT !.body = Append(r.body,
                Piece(IF r.i > 0 THEN "commaChunk" ELSE "chunk", r.i + 1, content))]
      [] r.handler = "route" ->
           [r EXCEPT !.body = Append(r.body, Piece("chunkLine", r.i + 1, content))]
      [] r.handler = "part_002" -> r

\* faulty variant: the progress record is held back
WriteChunkHeldBack(r, content) == r

\* the progress write for chunk r.i with summary `content`
WriteChunk(r, content) ==
    CASE r.handler = "summarizePdf" ->
           [r EXCEPT !.body = Append(r.body,
                Piece(IF r.i > 0 THEN "commaChunk" ELSE "chunk", r.i, content))]
      [] r.handler = "route" ->
           [r EXCEPT !.body = Append(r.body, Piece("chunkLine", r.i, content))]
      [] r.handler = "part_002" -> r

\* faulty variant: the summary is written to the response before the
\* final updateOne is awaited
AfterLoopAnnouncing(r) ==
    LET full == AssembleSummary(r.chunkSummaries)
        w == CASE r.handler = "summarizePdf" ->
                    [r EXCEPT !.body = r.body \o <<Piece("summaryKey", 0, <<>>),
                                                   Piece("string", 0, full)>>]
               [] r.handler = "route" ->
                    [r EXCEPT !.body = Append(r.body, Piece("summaryLine", 0, full))]
               [] r.handler = "part_002" -> r
    IN  [w EXCEPT !.fullSummary = full, !.pc = "StoreDocumentCache"]

\* after the loop, up to the await of the final updateOne
AfterLoop(r) ==
    LET w == IF r.handler = "summarizePdf"
             THEN [r EXCEPT !.body = Append(r.body, Piece("summaryKey", 0, <<>>))]
             ELSE r
    IN  [w EXCEPT !.fullSummary = AssembleSummary(r.chunkSummaries),
                  !.pc = "StoreDocumentCache"]

\* faulty variant: the loop ends one chunk early
LoopHeadOneShort(r) ==
    IF r.i < Len(r.chunks) - 1 THEN [r EXCEPT !.pc = "CheckChunkCache"] ELSE AfterLoop(r)

\* the loop head: for (i = ...; i < chunks.length; ...)
LoopHead(r) ==
    IF r.i < Len(r.chunks) THEN [r EXCEPT !.pc = "CheckChunkCache"] ELSE AfterLoop(r)

\* faulty variant: the loop index is not advanced
ChunkCompletedSameIndex(r, content) ==
    LET pushed == [r EXCEPT !.chunkSummaries =
                        Append(r.chunkSummaries, [index |-> r.i, content |-> content])]
        written == WriteChunk(pushed, content)
    IN  LoopHead(written)

\* chunkSummaries.push({index: i, content}), the progress write, i++
ChunkCompleted(r, content) ==
    LET pushed == [r EXCEPT !.chunkSummaries =
                        Append(r.chunkSummaries, [index |-> r.i, content |-> content])]
        written == WriteChunk(pushed, content)
    IN  LoopHead([written EXCEPT !.i = r.i + 1])

\* faulty variant: the non-streaming handler returns the last chunk's
\* summary instead of the assembled one
WriteFinalLastChunk(r) ==
    CASE r.handler = "summarizePdf" ->
           [r EXCEPT !.pc = "Done", !.ended = "end",
                     !.body = r.body \o <<Piece("string", 0, r.fullSummary),
                                          Piece("close", 0, <<>>)>>]
      [] r.handler = "route" ->
           [r EXCEPT !.pc = "Done", !.ended = "end",
                     !.body = Append(r.body, Piece("summaryLine", 0, r.fullSummary))]
      [] r.handler = "part_002" ->
           RespondSummary(r, r.chunkSummaries[Len(r.chunkSummaries)].content)

\* the last writes after the final updateOne
WriteFinal(r) ==
    CASE r.handler = "summarizePdf" ->
           [r EXCEPT !.pc = "Done", !.ended = "end",
                     !.body = r.body \o <<Piece("string", 0, r.fullSummary),
                                          Piece("close", 0, <<>>)>>]
      [] r.handler = "route" ->
           [r EXCEPT !.pc = "Done", !.ended = "end",
                     !.body = Append(r.body, Piece("summaryLine", 0, r.fullSummary))]
      [] r.handler = "part_002" -> RespondSummary(r, r.fullSummary)

(***************************************************************************)
(* Requests.  A well-formed request names a PDF and an issue; the others   *)
(* are the requests the handlers reject.                                   *)
(***************************************************************************)
\* issueType is typeof issueNumber
Request(h, m, u, n) ==
    [handler |-> h, method |-> m, pdfUrl |-> u, issueNumber |-> n, issueType |-> "number"]

ValidRequests == {Request(h, "POST", u, n) : h \in Handlers, u \in PdfUrls, n \in Issues}

\* a route handler exported as POST is only called for POST
RejectedRequests ==
    {Request(h, "GET", "u1", 1) : h \in {"summarizePdf", "part_002"}}
    \cup {Request(h, "POST", "", 1) : h \in Handlers}
    \cup {Request(h, "POST", "u1", 0) : h \in Handlers}
    \cup {[Request("part_002", "POST", "u1", 1) EXCEPT !.issueType = "boolean"]}

Requests == ValidRequests \cup RejectedRequests

\* history: the number of summarizer calls request r made for chunk j
RECURSIVE SummarizerCalls(_, _)
SummarizerCalls(log, j) ==
    IF Len(log) = 0 THEN 0
    ELSE (IF Head(log).op = "summarize" /\ Head(log).index = j THEN 1 ELSE 0)
         + SummarizerCalls(Tail(log), j)

\* history: summarizer calls per <<issueNumber, chunkIndex>> of the requests
\* counted in `calls` and of request r
CallsWith(calls, r) ==
    LET new == {<<r.issueNumber, j>> : j \in {e \in 0..(Len(r.chunks) - 1) :
                    SummarizerCalls(r.log, e) > 0}}
    IN  [k \in (DOMAIN calls) \cup new |->
            (IF k \in DOMAIN calls THEN calls[k] ELSE 0)
            + (IF k \in new THEN SummarizerCalls(r.log, k[2]) ELSE 0)]

\* history: every summarizer call of r answered with a non-empty text and no
\* cache write of r failed
CleanRequest(r) ==
    /\ \A e \in 1..Len(r.log) : r.log[e].op = "summarize" => Truthy(r.log[e].content)
    /\ r.failedOp \notin {"summarize", "chunkWrite", "docWrite"}

\* history: the <<issueNumber, pdfUrl, maxWords>> of r, when r was accepted
InputsWith(inputs, r) ==
    IF r.pc \in {"Idle", "Rejected"} THEN inputs
    ELSE inputs \cup {<<r.issueNumber, r.pdfUrl, DefaultMaxWords(r.handler)>>}

\* history: the requests for one issue named the same PDF and split it with
\* the same maxWords
SameInputPerIssue(inputs) == \A a, b \in inputs : a[1] = b[1] => a = b

\* history: `clean` says that so far every request was clean and had the
\* same input; calls and inputs are kept while that is so
LastOf(r) ==
    LET clean == /\ last.clean
                 /\ CleanRequest(r)
                 /\ SameInputPerIssue(InputsWith(last.inputs, r))
    IN  [pc |-> r.pc, handler |-> r.handler, pdfUrl |-> r.pdfUrl,
         issueNumber |-> r.issueNumber,
         failedOp |-> r.failedOp, failedIndex |-> r.failedIndex, n |-> Len(r.chunks),
         preStored |-> DOMAIN r.pre,
         calls |-> IF clean THEN CallsWith(last.calls, r) ELSE <<>>,
         clean |-> clean,
         inputs |-> IF clean THEN InputsWith(last.inputs, r) ELSE {}]

\* a handler that validates after it has connected to the store
RejectAfterConnect(r, status, message) ==
    [r EXCEPT !.pc = "Rejected", !.status = status, !.ended = "end",
              !.body = <<Piece("jsonError", 0, message)>>,
              !.log = <<LogEntry("connect", -1, <<>>)>>]

Reject(r, status, message) ==
    [r EXCEPT !.pc = "Rejected", !.status = status, !.ended = "end",
              !.body = <<Piece("jsonError", 0, message)>>]

\* A request arrives in slot p: the method and the body are checked.
Start(p, q) ==
    /\ req[p].pc \in {"Idle"} \cup Terminal
    /\ started < MaxRequests
    /\ started' = started + 1
    /\ last' = IF req[p].pc \in Terminal THEN LastOf(req[p]) ELSE last
    /\ LET r == [NoRequest EXCEPT !.handler = q.handler, !.method = q.method,
                                  !.pdfUrl = q.pdfUrl, !.issueNumber = q.issueNumber,
                                  !.pre = StoredChunks(chunkColl, q.issueNumber),
                                  !.preDoc = StoredSummary(summaries, q.issueNumber)]
       IN  req' = [req EXCEPT ![p] =
                IF q.handler # "route" /\ q.method # "POST"
                THEN Reject(r, 405, <<"Method not allowed">>)
                ELSE IF q.pdfUrl = "" \/ q.issueNumber = 0
                THEN Reject(r, 400, IF q.handler = "route"
                                    THEN <<"Missing required fields">>
                                    ELSE <<"Missing PDF URL or Issue Number">>)
                ELSE IF q.handler = "part_002" /\ q.issueType \notin {"string", "number"}
                THEN Reject(r, 400, <<"Invalid Issue Number format">>)
                ELSE [r EXCEPT !.pc = "Connect"]]
    /\ UNCHANGED <<summaries, chunkColl, cachedDb, pure, page, records, ingest, search, ui>>

\* await connectToDatabase(): summarizePdf.js reuses its cached handle
ConnectToDatabase(p) ==
    /\ req[p].pc = "Connect"
    /\ LET r == req[p]
           reuse == r.handler = "summarizePdf" /\ cachedDb
       IN  \/ /\ req' = [req EXCEPT ![p] = [r EXCEPT !.pc = "CheckDocumentCache"]]
              /\ cachedDb' = (cachedDb \/ r.handler = "summarizePdf")
           \/ /\ ~reuse
              /\ req' = [req EXCEPT ![p] = Caught(r, "connect", -1)]
              /\ UNCHANGED cachedDb
    /\ UNCHANGED <<summaries, chunkColl, started, last, pure, page, records, ingest, search, ui>>

\* await collection.findOne({issueNumber}) and the test of its summary
CheckDocumentCache(p) ==
    /\ req[p].pc = "CheckDocumentCache"
    /\ LET r == Logged(req[p], "docRead", -1, <<>>)
       IN  \/ req' = [req EXCEPT ![p] = Caught(r, "docRead", -1)]
           \/ req' = [req EXCEPT ![p] =
                  IF DocSummaryHit(summaries, r.issueNumber)
                  THEN RespondSummary(r, summaries[r.issueNumber].summary)
                  ELSE [r EXCEPT !.pc = "Fetch"]]
    /\ UNCHANGED <<summaries, chunkColl, started, last, cachedDb, pure, page, records, ingest, search, ui>>

\* await axios.get(pdfUrl, {responseType: "arraybuffer"})
Fetch(p) ==
    /\ req[p].pc = "Fetch"
    /\ LET r == Logged(req[p], "fetch", -1, <<>>)
       IN  \/ req' = [req EXCEPT ![p] = Caught(r, "fetch", -1)]
           \/ req' = [req EXCEPT ![p] = [r EXCEPT !.pc = "Extract"]]
    /\ UNCHANGED <<summaries, chunkColl, started, last, cachedDb, pure, page, records, ingest, search, ui>>

\* await pdf(buffer); then the split, the first write and the loop head
Extract(p) ==
    /\ req[p].pc = "Extract"
    /\ LET r == Logged(req[p], "extract", -1, <<>>)
           split == Logged([r EXCEPT !.chunks =
                        splitIntoChunks(PdfText(r.pdfUrl), DefaultMaxWords(r.handler))],
                        "split", -1, <<>>)
       IN  \/ req' = [req EXCEPT ![p] = Caught(r, "extract", -1)]
           \/ req' = [req EXCEPT ![p] = LoopHead(WriteStart(split))]
    /\ UNCHANGED <<summaries, chunkColl, started, last, cachedDb, pure, page, records, ingest, search, ui>>

\* await chunkCollection.findOne({issueNumber, chunkIndex: i})
CheckChunkCache(p) ==
    /\ req[p].pc = "CheckChunkCache"
    /\ LET r == Logged(req[p], "chunkRead", req[p].i, <<>>)
       IN  \/ req' = [req EXCEPT ![p] = Caught(r, "chunkRead", r.i)]
           \/ req' = [req EXCEPT ![p] =
                  IF ChunkSummaryHit(chunkColl, r.issueNumber, r.i)
                  THEN ChunkCompleted(r, chunkColl[ChunkKey(r.issueNumber, r.i)])
                  ELSE [r EXCEPT !.pc = "Summarize"]]
    /\ UNCHANGED <<summaries, chunkColl, started, last, cachedDb, pure, page, records, ingest, search, ui>>

\* faulty variant: a call that throws is made again
SummarizeWithRetry(p) ==
    /\ req[p].pc = "Summarize"
    /\ \/ req' = [req EXCEPT ![p] = Logged(req[p], "summarize", req[p].i, <<>>)]
       \/ \E content \in Replies :
              req' = [req EXCEPT ![p] =
                  [Logged(req[p], "summarize", req[p].i, content)
                      EXCEPT !.summaryText = content, !.pc = "WriteChunkCache"]]
    /\ UNCHANGED <<summaries, chunkColl, started, last, cachedDb, pure, page, records, ingest, search, ui>>

\* await summarizeChunk(chunkText, i) / openai.chat.completions.create(...).
\* The call throws (no connection, a non-success status), or the response has
\* no choice and reading choices[0].message throws: both end in the catch
\* block.  Any other response is taken as it is, whatever its content.
Summarize(p) ==
    /\ req[p].pc = "Summarize"
    /\ \/ req' = [req EXCEPT ![p] =
              Caught(Logged(req[p], "summarize", req[p].i, <<>>), "summarize", req[p].i)]
       \/ \E content \in Replies :
              req' = [req EXCEPT ![p] =
                  [Logged(req[p], "summarize", req[p].i, content)
                      EXCEPT !.summaryText = content, !.pc = "WriteChunkCache"]]
    /\ UNCHANGED <<summaries, chunkColl, started, last, cachedDb, pure, page, records, ingest, search, ui>>

\* await chunkCollection.updateOne({issueNumber, chunkIndex: i}, {$set: ...}, {upsert: true})
WriteChunkCache(p) ==
    /\ req[p].pc = "WriteChunkCache"
    /\ LET r == Logged(req[p], "chunkWrite", req[p].i, req[p].summaryText)
       IN  \/ /\ req' = [req EXCEPT ![p] = Caught(r, "chunkWrite", r.i)]
              /\ UNCHANGED chunkColl
           \/ /\ chunkColl' = UpdateOneUpsert(chunkColl, ChunkKey(r.issueNumber, r.i), r.summaryText)
              /\ req' = [req EXCEPT ![p] = ChunkCompleted(r, r.summaryText)]
    /\ UNCHANGED <<summaries, started, last, cachedDb, pure, page, records, ingest, search, ui>>

\* await collection.updateOne({issueNumber}, {$set: {issueNumber, pdfUrl, summary}}, {upsert: true})
StoreDocumentCache(p) ==
    /\ req[p].pc = "StoreDocumentCache"
    /\ LET r == Logged(req[p], "docWrite", -1, req[p].fullSummary)
       IN  \/ /\ req' = [req EXCEPT ![p] = Caught(r, "docWrite", -1)]
              /\ UNCHANGED summaries
           \/ /\ summaries' = UpdateOneUpsert(summaries, r.issueNumber,
                                  [summary |-> r.fullSummary, pdfUrl |-> r.pdfUrl])
              /\ req' = [req EXCEPT ![p] = WriteFinal(r)]
    /\ UNCHANGED <<chunkColl, started, last, cachedDb, pure, page, records, ingest, search, ui>>

(***************************************************************************)
(* The page (pages/index.js).  summarizePdf(pdfUrl, issueNumber) posts to  *)
(* /api/summarizePdf, reads the response body to its end, parses it as one *)
(* JSON value and shows parsed.summary.  A JavaScript value is a record    *)
(* with its type; `received` and `seen` are history.                       *)
(***************************************************************************)
JsNull == [type |-> "null", text |-> <<>>]

JsUndefined == [type |-> "undefined", text |-> <<>>]

JsString(text) == [type |-> "string", text |-> text]

JsTruthy(v) == v.type = "string" /\ Truthy(v.text)

PreviewLength == 420

\* buildPreview(summary)
buildPreview(summary) ==
    IF ~JsTruthy(summary) THEN JsNull
    ELSE IF Len(summary.text) > PreviewLength
         THEN JsString(Append(SubSeq(summary.text, 1, PreviewLength), "..."))
         ELSE summary

FailureMessage == JsString(<<"Failed to summarize this document.">>)

NoPage ==
    [selectedSummary |-> JsNull,
     records |-> [n \in Issues |-> [hasSummary |-> FALSE, summaryPreview |-> JsNull]],
     seen |-> 0, received |-> <<>>]

(***************************************************************************)
(* The daily records.  Ingestion (pages/api/summarizeRecords.js with a     *)
(* bulk upsert, utils/fetchAndStoreReports.js with find-then-insert) reads *)
(* the list of daily records from the upstream API and stores the ones it  *)
(* does not find under (issueNumber, volumeNumber).  A stored record keeps *)
(* the fields it was fetched with (fetchedAt stands for all of them) and   *)
(* may carry a summary and a summaryEmbedding.  The collection has no      *)
(* unique index, so it is a sequence: a record's position stands for _id.  *)
(***************************************************************************)
\* ingestion runs in one behaviour
MaxRuns == 2

RunIds == 1..MaxRuns

\* (issueNumber, volumeNumber) of the records the upstream API lists
RecordKeys == {<<1, 1>>, <<1, 2>>}

\* records in one answer of the upstream API
MaxListed == 2

NoEmbedding == <<>>

\* the record built from a list entry by the run that fetched it
Record(key, at) ==
    [issueNumber |-> key[1], volumeNumber |-> key[2], fetchedAt |-> at,
     summary |-> <<>>, summaryEmbedding |-> NoEmbedding, contents |-> <<>>]

NoRun ==
    [pc |-> "Idle", version |-> "none", trigger |-> "none", i |-> 0, attempts |-> 0,
     waits |-> <<>>, listed |-> <<>>, fetched |-> <<>>, returned |-> "none",
     k |-> 0, ops |-> 0, threw |-> FALSE]

\* fetchCongressionalRecords has returned: its locals are gone
Returned(run) == [run EXCEPT !.i = 0, !.attempts = 0, !.waits = <<>>, !.listed = <<>>]

\* fetchAndStoreRecords has settled: what is left is whether it threw and
\* how many store operations it made
Settled(run, threw) ==
    [Returned(run) EXCEPT !.pc = "Done", !.fetched = <<>>, !.returned = "none", !.k = 0,
                          !.threw = threw]

NoCron == [pc |-> "Idle", method |-> "none", authorization |-> "none", status |-> 0, run |-> 0]

NoIngest == [runs |-> [r \in RunIds |-> NoRun], cron |-> NoCron, loaded |-> {}]

\* cosineSimilarity gave null, or no similarity was computed
NoSimilarity == [num |-> 0, den |-> 0]

NoSearch ==
    [pc |-> "Idle", openai |-> FALSE, method |-> "none", query |-> <<>>, limit |-> 0,
     found |-> <<>>, k |-> 0, queryEmbedding |-> NoEmbedding, pending |-> NoEmbedding,
     scored |-> <<>>, status |-> 0, data |-> <<>>, n |-> 0, calls |-> <<>>,
     listing |-> [status |-> 0, count |-> 0]]

\* record.issueNumber of the cards of the page: two volumes of issue 1 and
\* one of issue 2
CardIssues == <<1, 1, 2>>

PageIssues == {CardIssues[c] : c \in DOMAIN CardIssues}

\* useState({}) for loadingSummaries, useState(null) for selectedSummary;
\* inflight and settled are history: the summarize requests of the page that
\* have not settled, and how the last request of an issue settled
NoUi ==
    [loadingSummaries |-> [n \in PageIssues |-> "undefined"],
     selectedSummary |-> "null",
     inflight |-> [n \in PageIssues |-> 0],
     settled |-> [n \in PageIssues |-> "none"],
     clicks |-> 0]

NoPure == [pc |-> "none", op |-> "none", text |-> <<>>, maxWords |-> 1, chunks |-> <<>>,
           joined |-> <<>>, again |-> <<>>, items |-> <<>>, summary |-> <<>>]

Init ==
    /\ summaries = <<>>
    /\ chunkColl = <<>>
    /\ req = [p \in Procs |-> NoRequest]
    /\ started = 0
    /\ last = NoLast
    /\ cachedDb = FALSE
    /\ pure = NoPure
    /\ page = NoPage
    /\ records = <<>>
    /\ ingest = NoIngest
    /\ search = NoSearch
    /\ ui = NoUi

\* requests one after the other, in the first slot
Next ==
    \/ \E q \in Requests : Start(1, q)
    \/ ConnectToDatabase(1)
    \/ CheckDocumentCache(1)
    \/ Fetch(1)
    \/ Extract(1)
    \/ CheckChunkCache(1)
    \/ Summarize(1)
    \/ WriteChunkCache(1)
    \/ StoreDocumentCache(1)

Spec == Init /\ [][Next]_vars

(***************************************************************************)
(* Requests that overlap.  Node runs each handler up to its next await and *)
(* then any other handler that is ready, so between two awaits of one      *)
(* request any number of steps of the other may happen.  Each of the two   *)
(* slots serves one request; the requests are well-formed and name the     *)
(* same PDF under one of two issue numbers.                                *)
(***************************************************************************)
ConcurrentIssues == {1, 2}

ConcurrentRequests ==
    {Request(h, "POST", "u1", n) : h \in Handlers, n \in ConcurrentIssues}

\* Slots and issue numbers are names only: the request that arrives first
\* is the one in slot 1, and its issue is called 1.  A handler touches
\* nothing shared before its first await, so a request that arrives later
\* behaves as one that arrived at once and was resumed later: the second
\* request is accepted before the first takes a step.
StartConcurrent(p) ==
    /\ req[p].pc = "Idle"
    /\ p # 1 => req[1].pc = "Connect"
    /\ \E q \in ConcurrentRequests :
          /\ p = 1 => q.issueNumber = 1
          /\ Start(p, q)

\* the step of the request in slot p
Step(p) ==
    \/ ConnectToDatabase(p)
    \/ CheckDocumentCache(p)
    \/ Fetch(p)
    \/ Extract(p)
    \/ CheckChunkCache(p)
    \/ Summarize(p)
    \/ WriteChunkCache(p)
    \/ StoreDocumentCache(p)

NextConcurrent == \E p \in Procs : StartConcurrent(p) \/ Step(p)

SpecConcurrent == Init /\ [][NextConcurrent]_vars

(***************************************************************************)
(* The pure functions on their own: splitIntoChunks on every short text,   *)
(* and the assembly step on chunk results in every order.                  *)
(***************************************************************************)
ItemContents == {<<>>, <<"A">>, <<"B">>, <<"C">>}

\* lists of n chunk results whose indices are 0..n-1 in any order
ItemLists(n) ==
    {items \in [1..n -> [index : 0..(n - 1), content : ItemContents]] :
        \A j, k \in 1..n : j # k => items[j].index # items[k].index}

PureInputs ==
    {[NoPure EXCEPT !.pc = "input", !.op = "split", !.text = t, !.maxWords = m] :
        t \in StringsUpTo(TextChar, MaxTextLen), m \in 1..MaxWordsArg}
    \cup
    {[NoPure EXCEPT !.pc = "input", !.op = "assemble", !.items = items] :
        items \in UNION {ItemLists(n) : n \in 0..MaxItems}}

InitPure ==
    /\ summaries = <<>>
    /\ chunkColl = <<>>
    /\ req = [p \in Procs |-> NoRequest]
    /\ started = 0
    /\ last = NoLast
    /\ cachedDb = FALSE
    /\ page = NoPage
    /\ records = <<>>
    /\ ingest = NoIngest
    /\ search = NoSearch
    /\ ui = NoUi
    /\ pure \in PureInputs

\* chunks = splitIntoChunks(text, maxWords)
CallSplit ==
    /\ pure.pc = "input" /\ pure.op = "split"
    /\ pure' = [pure EXCEPT !.pc = "split",
                            !.chunks = splitIntoChunks(pure.text, pure.maxWords)]
    /\ UNCHANGED <<summaries, chunkColl, req, started, last, cachedDb, page, records, ingest, search, ui>>

\* the chunks joined with single spaces
CallJoin ==
    /\ pure.pc = "split"
    /\ pure' = [pure EXCEPT !.pc = "joined", !.joined = JoinWith(pure.chunks, <<" ">>)]
    /\ UNCHANGED <<summaries, chunkColl, req, started, last, cachedDb, page, records, ingest, search, ui>>

\* splitIntoChunks again, on the joined chunks
CallSplitAgain ==
    /\ pure.pc = "joined"
    /\ pure' = [pure EXCEPT !.pc = "again",
                            !.again = splitIntoChunks(pure.joined, pure.maxWords)]
    /\ UNCHANGED <<summaries, chunkColl, req, started, last, cachedDb, page, records, ingest, search, ui>>

\* the sort and the join of the assembly step
CallAssemble ==
    /\ pure.pc = "input" /\ pure.op = "assemble"
    /\ pure' = [pure EXCEPT !.pc = "assembled", !.summary = AssembleSummary(pure.items)]
    /\ UNCHANGED <<summaries, chunkColl, req, started, last, cachedDb, page, records, ingest, search, ui>>

NextPure == CallSplit \/ CallJoin \/ CallSplitAgain \/ CallAssemble

SpecPure == InitPure /\ [][NextPure]_vars

(***************************************************************************)
(* Vocabulary of the properties (defined on the text itself, not through   *)
(* the operators that model the code).                                     *)
(***************************************************************************)
\* a word is a maximal run of characters that are not whitespace
WordStarts(str) == {k \in 1..Len(str) : ~IsSpace(str[k]) /\ (k = 1 \/ IsSpace(str[k - 1]))}

WordCount(str) == Cardinality(WordStarts(str))

AllWhitespace(str) == \A k \in 1..Len(str) : IsSpace(str[k])

\* the words of str in their order, separated by single spaces
RECURSIVE Normalized(_, _, _)
Normalized(str, k, out) ==
    IF k > Len(str) THEN out
    ELSE IF IsSpace(str[k]) THEN Normalized(str, k + 1, out)
    ELSE Normalized(str, k + 1,
             IF k \in WordStarts(str) /\ out # <<>>
             THEN out \o <<" ", str[k]>>
             ELSE Append(out, str[k]))

WhitespaceNormalized(str) == Normalized(str, 1, <<>>)

\* no empty word: no space at either end and no two spaces in a row
NoEmptyWord(chunk) ==
    /\ chunk # <<>>
    /\ chunk[1] # " " /\ chunk[Len(chunk)] # " "
    /\ \A k \in 1..(Len(chunk) - 1) : ~(chunk[k] = " " /\ chunk[k + 1] = " ")

RECURSIVE SumLen(_, _)
SumLen(parts, n) == IF n = 0 THEN 0 ELSE Len(parts[n]) + SumLen(parts, n - 1)

\* str is parts[1], sep, parts[2], sep, ..., parts[n], position by position
IsJoinOf(str, parts, sep) ==
    LET n == Len(parts)
        At(j) == SumLen(parts, j - 1) + (j - 1) * Len(sep)
    IN  /\ Len(str) = SumLen(parts, n) + (IF n = 0 THEN 0 ELSE (n - 1) * Len(sep))
        /\ \A j \in 1..n :
              /\ \A k \in 1..Len(parts[j]) : str[At(j) + k] = parts[j][k]
              /\ j > 1 => \A k \in 1..Len(sep) : str[At(j) - Len(sep) + k] = sep[k]

\* the content of the chunk result with index j
ContentOfIndex(items, j) == (CHOOSE k \in 1..Len(items) : items[k].index = j)

(***************************************************************************)
(* C4.  The assembled summary is the chunk summaries by ascending chunk    *)
(* index with a blank line (two newlines) between them, in whatever order  *)
(* the chunk results were collected.                                       *)
(***************************************************************************)
C4_AssemblyByIndex ==
    pure.pc = "assembled" =>
        IsJoinOf(pure.summary,
                 [j \in 1..Len(pure.items) |->
                     pure.items[ContentOfIndex(pure.items, j - 1)].content],
                 <<"\n", "\n">>)

\* results C, A, B collected for indices 2, 0, 1 and assembled as A, B, C
C4_Witness ==
    /\ pure.pc = "assembled"
    /\ pure.items = <<[index |-> 2, content |-> <<"C">>],
                      [index |-> 0, content |-> <<"A">>],
                      [index |-> 1, content |-> <<"B">>]>>
    /\ pure.summary = <<"A", "\n", "\n", "B", "\n", "\n", "C">>

(***************************************************************************)
(* C5.  Every chunk but the last holds exactly maxWords words, the last    *)
(* holds 1..maxWords words, no chunk and no word is empty, and there are   *)
(* zero chunks exactly when the text is empty or all whitespace.           *)
(***************************************************************************)
C5_ChunkSizes ==
    (pure.op = "split" /\ pure.pc # "input") =>
        LET n == Len(pure.chunks)
        IN  /\ \A j \in 1..(n - 1) : WordCount(pure.chunks[j]) = pure.maxWords
            /\ n > 0 => WordCount(pure.chunks[n]) \in 1..pure.maxWords
            /\ \A j \in 1..n : NoEmptyWord(pure.chunks[j])
            /\ (n = 0) <=> AllWhitespace(pure.text)

(***************************************************************************)
(* C6.  The chunks joined with single spaces are the whitespace-normalized *)
(* text, and splitting that again gives the same chunks.                   *)
(***************************************************************************)
C6_SplitRoundTrip ==
    (pure.op = "split" /\ pure.pc = "again") =>
        /\ pure.joined = WhitespaceNormalized(pure.text)
        /\ pure.again = pure.chunks

(***************************************************************************)
(* The text of a response body as JSON tokens.  Every string and number    *)
(* comes from JSON.stringify or is a literal of the handler, so each is    *)
(* one token; what the handlers write by hand is the punctuation.          *)
(***************************************************************************)
ObjectTokens(members) == <<"{">> \o members \o <<"}">>

PieceTokens(piece) ==
    CASE piece.kind = "jsonSummary" -> ObjectTokens(<<"str", ":", "str">>)
      [] piece.kind = "jsonError"   -> ObjectTokens(<<"str", ":", "str">>)
      [] piece.kind = "open"        -> <<"{", "str", ":", "num", ",", "str", ":", "[">>
      [] piece.kind = "chunk"       ->
             ObjectTokens(<<"str", ":", "num", ",", "str", ":", "str">>)
      [] piece.kind = "commaChunk"  ->
             <<",">> \o ObjectTokens(<<"str", ":", "num", ",", "str", ":", "str">>)
      [] piece.kind = "summaryKey"  -> <<"]", ",", "str", ":">>
      [] piece.kind = "string"      -> <<"str">>
      [] piece.kind = "close"       -> <<"}">>
      [] piece.kind = "errorTail"   -> <<"]", ",", "str", ":", "str", "}">>
      [] piece.kind = "startLine"   -> ObjectTokens(<<"str", ":", "num">>) \o <<"nl">>
      [] piece.kind = "chunkLine"   ->
             ObjectTokens(<<"str", ":", "num", ",", "str", ":", "str">>) \o <<"nl">>
      [] piece.kind = "summaryLine" -> ObjectTokens(<<"str", ":", "str">>) \o <<"nl">>

RECURSIVE BodyTokens(_)
BodyTokens(body) ==
    IF Len(body) = 0 THEN <<>> ELSE PieceTokens(Head(body)) \o BodyTokens(Tail(body))

\* JSON grammar over tokens: `open` is the stack of open brackets, `st` what
\* may come next
Pop(stack) == SubSeq(stack, 1, Len(stack) - 1)

AfterValue(stack) == IF Len(stack) = 0 THEN "done" ELSE "afterValue"

RECURSIVE JsonScan(_, _, _, _)
JsonScan(toks, k, open, st) ==
    IF k > Len(toks) THEN st = "done"
    ELSE LET t == toks[k]
             top == IF Len(open) = 0 THEN "" ELSE open[Len(open)]
         IN  CASE st \in {"value", "valueOrEnd"} ->
                    IF t \in {"str", "num"} THEN JsonScan(toks, k + 1, open, AfterValue(open))
                    ELSE IF t = "{" THEN JsonScan(toks, k + 1, Append(open, "{"), "keyOrEnd")
                    ELSE IF t = "[" THEN JsonScan(toks, k + 1, Append(open, "["), "valueOrEnd")
                    ELSE IF t = "]" /\ st = "valueOrEnd"
                         THEN JsonScan(toks, k + 1, Pop(open), AfterValue(Pop(open)))
                    ELSE FALSE
               [] st \in {"key", "keyOrEnd"} ->
                    IF t = "str" THEN JsonScan(toks, k + 1, open, "colon")
                    ELSE IF t = "}" /\ st = "keyOrEnd"
                         THEN JsonScan(toks, k + 1, Pop(open), AfterValue(Pop(open)))
                    ELSE FALSE
               [] st = "colon" ->
                    IF t = ":" THEN JsonScan(toks, k + 1, open, "value") ELSE FALSE
               [] st = "afterValue" ->
                    IF t = "," THEN JsonScan(toks, k + 1, open,
                                             IF top = "{" THEN "key" ELSE "value")
                    ELSE IF (t = "}" /\ top = "{") \/ (t = "]" /\ top = "[")
                         THEN JsonScan(toks, k + 1, Pop(open), AfterValue(Pop(open)))
                    ELSE FALSE
               [] st = "done" -> FALSE

\* the tokens are one complete JSON value
ValidJson(toks) == JsonScan(toks, 1, <<>>, "value")

\* newline-delimited JSON: every line, up to its newline, is one JSON value
RECURSIVE ValidLines(_, _)
ValidLines(toks, from) ==
    IF from > Len(toks) THEN TRUE
    ELSE LET nls == {k \in from..Len(toks) : toks[k] = "nl"}
         IN  IF nls = {} THEN FALSE
             ELSE LET nl == CHOOSE k \in nls : \A j \in nls : k <= j
                  IN  ValidJson(SubSeq(toks, from, nl - 1)) /\ ValidLines(toks, nl + 1)

\* the body parses the way its Content-Type says
WellFormedBody(r) ==
    IF r.handler = "route" /\ r.headersSent
    THEN ValidLines(BodyTokens(r.body), 1)
    ELSE ValidJson(BodyTokens(r.body))

\* parsed.summary of a body that parsed: the member "summary" or undefined
ParsedSummary(received) ==
    LET finals == {k \in 1..Len(received) : received[k].kind \in {"jsonSummary", "string"}}
    IN  IF finals = {} THEN JsUndefined
        ELSE JsString(received[CHOOSE k \in finals : TRUE].content)

\* The page's summarizePdf for the request in slot p.  The page reads the
\* first k pieces of the body: all of them when the handler has ended the
\* response and the connection held, fewer when the connection dropped.  JSON.parse throws on a text that is
\* not one JSON value, and the catch block shows the failure message.
PageSummarizePdf(p) ==
    /\ req[p].handler = "summarizePdf"
    /\ req[p].method = "POST"
    /\ page.seen < started
    /\ \E k \in 0..Len(req[p].body) :
          LET received == SubSeq(req[p].body, 1, k)
              parsed == ParsedSummary(received)
              n == req[p].issueNumber
          IN  page' =
                IF ValidJson(BodyTokens(received))
                THEN [page EXCEPT
                        !.selectedSummary = parsed,
                        !.records = [i \in DOMAIN page.records |->
                                        IF i = n
                                        THEN [hasSummary |-> TRUE,
                                              summaryPreview |-> buildPreview(parsed)]
                                        ELSE page.records[i]],
                        !.seen = started, !.received = received]
                ELSE [page EXCEPT !.selectedSummary = FailureMessage,
                                  !.seen = started, !.received = received]
    /\ UNCHANGED <<summaries, chunkColl, req, started, last, cachedDb, pure, records, ingest, search, ui>>

\* the requests the page sends
PageRequests == {q \in Requests : q.handler = "summarizePdf" /\ q.method = "POST"}

\* requests of the page one after the other, each read by the page
NextPage ==
    \/ \E q \in PageRequests : Start(1, q)
    \/ Step(1)
    \/ PageSummarizePdf(1)

SpecPage == Init /\ [][NextPage]_vars

(***************************************************************************)
(* The two modes side by side.  The non-streaming handler (part_002)       *)
(* serves issue 1 and then a streaming handler serves issue 2; the caches  *)
(* hold the same entries for both issues when the first request arrives    *)
(* (what earlier requests left: chunk summaries, empty or not, and maybe a *)
(* document summary).  The PDFs are chosen so that the two splits can have *)
(* the same number of chunks: the defaults of maxWords differ, and with    *)
(* one PDF the splits agree only for a text of a single chunk.             *)
(***************************************************************************)
ModeIssues == {1, 2}

\* chunk summaries stored per chunk index, the same for both issues
ModeChunkCaches ==
    UNION {[S -> {<<>>, <<"A">>}] : S \in SUBSET {0, 1}}

ModeDocCaches == {<<>>, <<"B">>}

ModeRequests ==
    {Request("part_002", "POST", u, 1) : u \in {"u2", "u3"}}
    \cup {Request(h, "POST", u, 2) : h \in Streaming, u \in PdfUrls}

InitModes ==
    /\ \E c \in ModeChunkCaches :
           chunkColl = [k \in ModeIssues \X DOMAIN c |-> c[k[2]]]
    /\ \E d \in ModeDocCaches :
           summaries = IF d = <<>> THEN <<>>
                       ELSE [n \in ModeIssues |-> [summary |-> d, pdfUrl |-> "u1"]]
    /\ req = [p \in Procs |-> NoRequest]
    /\ started = 0
    /\ last = NoLast
    /\ cachedDb = FALSE
    /\ pure = NoPure
    /\ page = NoPage
    /\ records = <<>>
    /\ ingest = NoIngest
    /\ search = NoSearch
    /\ ui = NoUi

\* the request of slot 2 arrives when the request of slot 1 has ended
StartMode(p) ==
    /\ req[p].pc = "Idle"
    /\ p # 1 => req[1].pc \in Terminal
    /\ \E q \in ModeRequests :
          /\ q.issueNumber = p
          /\ Start(p, q)

NextModes == \E p \in Procs : StartMode(p) \/ Step(p)

SpecModes == InitModes /\ [][NextModes]_vars

\* The same requests when every awaited operation settles: a handler that
\* can go on is resumed.
SpecLive == InitModes /\ [][NextModes]_vars /\ \A p \in Procs : WF_vars(Step(p))

(***************************************************************************)
(* Vocabulary of the request properties.                                   *)
(***************************************************************************)
\* the request got past the checks of its method and body
Accepted(r) == r.pc \notin {"Idle", "Rejected"}

Finished(r) == r.pc \in {"Done", "Failed"}

\* the operations of kind op the request attempted, in order, as indices
RECURSIVE IndicesOf(_, _)
IndicesOf(log, op) ==
    IF Len(log) = 0 THEN <<>>
    ELSE IF Head(log).op = op THEN <<Head(log).index>> \o IndicesOf(Tail(log), op)
    ELSE IndicesOf(Tail(log), op)

Attempted(r, op) == \E k \in 1..Len(r.log) : r.log[k].op = op

\* the text the summarizer answered for chunk j in this request
ReplyFor(r, j) ==
    r.log[CHOOSE k \in 1..Len(r.log) : r.log[k].op = "summarize" /\ r.log[k].index = j].content

\* the numbers of `set` in ascending order
RECURSIVE Ascending(_)
Ascending(set) ==
    IF set = {} THEN <<>>
    ELSE LET least == CHOOSE x \in set : \A y \in set : x <= y
         IN  <<least>> \o Ascending(set \ {least})

\* the complete summary the caller received, when it received one
FinalPieces == {"jsonSummary", "string", "summaryLine"}

ReceivedSummary(r) ==
    r.body[CHOOSE k \in 1..Len(r.body) : r.body[k].kind \in FinalPieces].content

ReceivedComplete(r) ==
    /\ r.ended = "end"
    /\ Cardinality({k \in 1..Len(r.body) : r.body[k].kind \in FinalPieces}) = 1
    /\ WellFormedBody(r)

\* chunks the request found cached when it arrived
PreCached(r) == {j \in DOMAIN r.pre : Truthy(r.pre[j])}

(***************************************************************************)
(* C1.  A request that arrives while the document cache holds a non-empty  *)
(* summary for its issue, and whose lookup returns it, ends in Done with   *)
(* exactly that summary; the lookup is its only operation: no PDF fetch,   *)
(* no split, no chunk-cache access, no document-cache write, no summarizer *)
(* call, and both caches stay as they were.                                *)
(***************************************************************************)
C1_DocumentCacheShortCircuit ==
    \A p \in Procs :
        LET r == req[p]
        IN  (/\ Accepted(r)
             /\ r.pc \notin {"Connect", "CheckDocumentCache"}
             /\ r.failedOp \notin {"connect", "docRead"}
             /\ Truthy(r.preDoc))
            => /\ r.pc = "Done"
               /\ r.status = 200
               /\ r.body = <<Piece("jsonSummary", 0, r.preDoc)>>
               /\ r.log = <<LogEntry("docRead", -1, <<>>)>>
               /\ StoredSummary(summaries, r.issueNumber) = r.preDoc
               /\ StoredChunks(chunkColl, r.issueNumber) = r.pre

\* the second of two requests for one issue answered from the document cache
\* that the first one filled
C1_Witness ==
    /\ started = 2
    /\ last.pc = "Done" /\ last.n = DocWords
    /\ last.issueNumber = req[1].issueNumber
    /\ req[1].pc = "Done"
    /\ Truthy(req[1].preDoc)
    /\ ~Attempted(req[1], "summarize")

(***************************************************************************)
(* C2.  A request that finds the document cache empty and the chunks of a  *)
(* set S cached, and that succeeds, calls the summarizer for exactly the   *)
(* chunk indices outside S, once each in ascending order, and the summary  *)
(* it returns is the blank-line join, by index, of the cached summaries of *)
(* S and the answers it got for the others.                                *)
(***************************************************************************)
C2_ResumeFromChunkCache ==
    \A p \in Procs :
        LET r == req[p]
            n == Len(r.chunks)
        IN  (r.pc = "Done" /\ Attempted(r, "split"))
            => /\ IndicesOf(r.log, "summarize") = Ascending((0..(n - 1)) \ PreCached(r))
               /\ ReceivedComplete(r)
               /\ IsJoinOf(ReceivedSummary(r),
                           [j \in 1..n |-> IF (j - 1) \in PreCached(r)
                                           THEN r.pre[j - 1]
                                           ELSE ReplyFor(r, j - 1)],
                           <<"\n", "\n">>)

\* three chunks, the middle one cached: the summarizer is called for 0 and 2
C2_Witness ==
    /\ req[1].pc = "Done"
    /\ Len(req[1].chunks) = 3
    /\ PreCached(req[1]) = {1}
    /\ IndicesOf(req[1].log, "summarize") = <<0, 2>>

(***************************************************************************)
(* C3.  When the summarizer call for chunk k throws in a request that      *)
(* found nothing in the chunk cache, the request ends in Failed, the chunk *)
(* cache then holds entries for exactly the chunks 0..k-1 and the document *)
(* cache no summary; and the request that follows with the same input      *)
(* calls the summarizer only for chunks k and later.                       *)
(***************************************************************************)
C3_FailFastResumable ==
    LET r == req[1]
    IN  /\ (/\ Finished(r)
            /\ DOMAIN r.pre = {}
            /\ r.failedOp = "summarize")
           => /\ r.pc = "Failed"
              /\ DOMAIN StoredChunks(chunkColl, r.issueNumber) = 0..(r.failedIndex - 1)
              /\ ~DocSummaryHit(summaries, r.issueNumber)
        /\ (/\ last.pc = "Failed" /\ last.failedOp = "summarize"
            /\ last.preStored = {}
            /\ Accepted(r)
            /\ r.handler = last.handler
            /\ r.pdfUrl = last.pdfUrl
            /\ r.issueNumber = last.issueNumber)
           => \A e \in 1..Len(r.log) :
                  r.log[e].op = "summarize" => r.log[e].index >= last.failedIndex

(***************************************************************************)
(* C7.  A streaming request that misses the document cache and succeeds    *)
(* emits exactly: one start event with totalChunks = n, then the chunk     *)
(* events 0, 1, ..., n-1 in this order, cached and fresh chunks alike,     *)
(* then one final event with the complete joined summary, and then the     *)
(* stream ends.                                                            *)
(***************************************************************************)
EventOf(piece) ==
    CASE piece.kind \in {"open", "startLine"} -> <<[event |-> "start", n |-> piece.n]>>
      [] piece.kind \in {"chunk", "commaChunk", "chunkLine"} ->
             <<[event |-> "chunk", n |-> piece.n]>>
      [] piece.kind \in {"string", "summaryLine"} -> <<[event |-> "final", n |-> 0]>>
      [] piece.kind \in {"errorTail", "jsonError"} -> <<[event |-> "error", n |-> 0]>>
      [] OTHER -> <<>>

RECURSIVE Events(_)
Events(body) ==
    IF Len(body) = 0 THEN <<>> ELSE EventOf(Head(body)) \o Events(Tail(body))

\* the contents of the chunk events, in the order they were emitted
RECURSIVE ChunkEventContents(_)
ChunkEventContents(body) ==
    IF Len(body) = 0 THEN <<>>
    ELSE (IF Head(body).kind \in {"chunk", "commaChunk", "chunkLine"}
          THEN <<Head(body).content>> ELSE <<>>) \o ChunkEventContents(Tail(body))

C7_ProgressEventOrder ==
    \A p \in Procs :
        LET r == req[p]
            n == Len(r.chunks)
        IN  (r.handler \in Streaming /\ r.pc = "Done" /\ Attempted(r, "split"))
            => /\ Events(r.body) =
                      <<[event |-> "start", n |-> n]>>
                      \o [j \in 1..n |-> [event |-> "chunk", n |-> j - 1]]
                      \o <<[event |-> "final", n |-> 0]>>
               /\ r.body[Len(r.body)].kind \in {"close", "summaryLine"}
               /\ r.ended = "end"
               /\ IsJoinOf(ReceivedSummary(r), ChunkEventContents(r.body), <<"\n", "\n">>)

\* a finished stream of two chunks, the first from the cache, the second fresh
C7_Witness ==
    /\ req[1].handler \in Streaming
    /\ req[1].pc = "Done"
    /\ Len(req[1].chunks) = 2
    /\ PreCached(req[1]) = {0}
    /\ IndicesOf(req[1].log, "summarize") = <<1>>
    /\ Len(ChunkEventContents(req[1].body)) = 2

(***************************************************************************)
(* C8.  A streaming request that fails after its start record was written  *)
(* closes the stream with exactly one error record, as its last record,    *)
(* and the whole body is well-formed.                                      *)
(***************************************************************************)
C8_MidStreamFailureFraming ==
    \A p \in Procs :
        LET r == req[p]
            errors == {k \in 1..Len(r.body) : r.body[k].kind \in {"errorTail", "jsonError"}}
        IN  (r.handler \in Streaming /\ r.pc = "Failed" /\ r.headersSent)
            => /\ r.ended = "end"
               /\ errors = {Len(r.body)}
               /\ WellFormedBody(r)

(***************************************************************************)
(* C9.  A document-cache or chunk-cache lookup that raises an error is     *)
(* taken as a miss: the request goes on, and no request is in Failed       *)
(* because of a lookup.                                                    *)
(***************************************************************************)
C9_ReadFailureFailsOpen ==
    \A p \in Procs :
        req[p].pc = "Failed" => req[p].failedOp \notin {"docRead", "chunkRead"}

(***************************************************************************)
(* C10.  A chunk-cache or document-cache write that fails after the text   *)
(* was obtained does not fail the request: the caller still receives the   *)
(* complete summary.                                                       *)
(***************************************************************************)
C10_WriteFailureKeepsResult ==
    \A p \in Procs :
        LET r == req[p]
            failedWrite == \E k \in 1..Len(r.log) :
                               /\ r.log[k].op \in {"chunkWrite", "docWrite"}
                               /\ r.failedOp = r.log[k].op
                               /\ r.failedIndex = r.log[k].index
        IN  (Finished(r) /\ failedWrite)
            => r.pc = "Done" /\ ReceivedComplete(r)

(***************************************************************************)
(* C11.  Over requests that run one after the other for one issue with the *)
(* same PDF and the same maxWords, while every summarizer call answers     *)
(* with a non-empty text and every cache write succeeds, the summarizer is *)
(* called at most once in total for each <<issueNumber, chunkIndex>>,      *)
(* however the requests end.                                               *)
(***************************************************************************)
C11_NoChunkSummarizedTwice ==
    LET r == req[1]
        calls == CallsWith(last.calls, r)
    IN  (/\ last.clean /\ CleanRequest(r)
         /\ SameInputPerIssue(InputsWith(last.inputs, r)))
        => \A k \in DOMAIN calls : calls[k] <= 1

\* a request that summarized chunk 0 and failed reading the cache for chunk
\* 1, followed by a request that summarizes chunk 1 only and succeeds
C11_Witness ==
    /\ started = 2
    /\ last.pc = "Failed" /\ last.failedOp = "chunkRead" /\ last.failedIndex = 1
    /\ last.calls = (<<last.issueNumber, 0>> :> 1)
    /\ last.clean /\ CleanRequest(req[1])
    /\ SameInputPerIssue(InputsWith(last.inputs, req[1]))
    /\ req[1].pc = "Done"
    /\ req[1].issueNumber = last.issueNumber
    /\ IndicesOf(req[1].log, "summarize") = <<1>>

(***************************************************************************)
(* Vocabulary of the properties of overlapping requests.                   *)
(***************************************************************************)
InFlight(r) == r.pc \notin {"Idle"} \cup Terminal

\* the request in slot p took a step
Stepped(p) == req'[p] # req[p]

\* the request in slot p completed its chunk-cache write in this step
WroteChunk(p) ==
    /\ req[p].pc = "WriteChunkCache"
    /\ req'[p].pc \notin {"WriteChunkCache", "Failed"}

\* the request in slot p completed its document-cache write in this step
WroteDocument(p) ==
    /\ req[p].pc = "StoreDocumentCache"
    /\ req'[p].pc = "Done"

(***************************************************************************)
(* C12.  Requests for one issue do not exclude each other: a request in    *)
(* flight can always take its step, whatever the other is doing; a step of *)
(* one request leaves the other request as it is; and each completed cache *)
(* write stores the writer's text under its key, over whatever the other   *)
(* request stored there (last writer wins).  The witness is the            *)
(* interleaving in which both miss the document cache and the cache of     *)
(* chunk 0, both call the summarizer for it and both write both caches.    *)
(***************************************************************************)
C12_NoMutualExclusion ==
    /\ [](\A p \in Procs : InFlight(req[p]) => ENABLED Step(p))
    /\ [][\A p \in Procs :
             /\ Stepped(p) => \A o \in Procs \ {p} : req'[o] = req[o]
             /\ WroteChunk(p) =>
                    /\ Has(chunkColl', <<req[p].issueNumber, req[p].i>>)
                    /\ chunkColl'[<<req[p].issueNumber, req[p].i>>] = req[p].summaryText
             /\ WroteDocument(p) =>
                    /\ Has(summaries', req[p].issueNumber)
                    /\ summaries'[req[p].issueNumber].summary = req[p].fullSummary]_vars

C12_Witness ==
    /\ req[1].issueNumber = req[2].issueNumber
    /\ \A p \in Procs :
           /\ req[p].pc = "Done"
           /\ req[p].preDoc = <<>>
           /\ Attempted(req[p], "fetch")
           /\ \E e \in 1..Len(req[p].log) :
                  req[p].log[e].op = "chunkRead" /\ req[p].log[e].index = 0
           /\ SummarizerCalls(req[p].log, 0) = 1
           /\ \E e \in 1..Len(req[p].log) :
                  req[p].log[e].op = "chunkWrite" /\ req[p].log[e].index = 0
           /\ Attempted(req[p], "docWrite")
    /\ ReplyFor(req[1], 0) # ReplyFor(req[2], 0)
    /\ req[1].fullSummary # req[2].fullSummary
    /\ StoredSummary(summaries, req[1].issueNumber) = req[2].fullSummary

(***************************************************************************)
(* C13.  Requests for different issues are isolated: a step of a request   *)
(* creates or changes cache entries under its own issue number only, never *)
(* removes one, and can always be taken; and while the two requests name   *)
(* different issues, every chunk entry stored under the issue of a request *)
(* is the text that request got from the summarizer for that chunk, and    *)
(* the summary stored under it is the one that request assembled.          *)
(***************************************************************************)
\* keys of a collection that are new or hold another value after the step
Changed(before, after) ==
    {k \in DOMAIN after : k \notin DOMAIN before \/ after[k] # before[k]}

C13_IsolationBetweenIssues ==
    /\ [](req[1].issueNumber # req[2].issueNumber
            => \A p \in Procs :
                  LET r == req[p]
                  IN  /\ InFlight(r) => ENABLED Step(p)
                      /\ \A j \in DOMAIN StoredChunks(chunkColl, r.issueNumber) :
                             /\ SummarizerCalls(r.log, j) = 1
                             /\ chunkColl[<<r.issueNumber, j>>] = ReplyFor(r, j)
                      /\ Has(summaries, r.issueNumber)
                             => /\ r.pc = "Done"
                                /\ summaries[r.issueNumber].summary = r.fullSummary)
    /\ [][\A p \in Procs :
             Stepped(p) =>
                 /\ \A k \in Changed(chunkColl, chunkColl') : k[1] = req[p].issueNumber
                 /\ \A k \in Changed(summaries, summaries') : k = req[p].issueNumber
                 /\ DOMAIN chunkColl \subseteq DOMAIN chunkColl'
                 /\ DOMAIN summaries \subseteq DOMAIN summaries']_vars

\* two requests for different issues, overlapping, each with its own
\* summary stored
C13_Witness ==
    /\ req[1].issueNumber # req[2].issueNumber
    /\ \A p \in Procs :
           /\ req[p].pc = "Done"
           /\ Attempted(req[p], "docWrite")
           /\ Truthy(req[p].fullSummary)
           /\ StoredSummary(summaries, req[p].issueNumber) = req[p].fullSummary
           /\ req[p].pre = <<>>
    /\ req[1].fullSummary # req[2].fullSummary
    /\ DOMAIN StoredChunks(chunkColl, 1) # {}
    /\ DOMAIN StoredChunks(chunkColl, 2) # {}

(***************************************************************************)
(* C14.  The stored document summary is write-once: no step changes a      *)
(* non-empty summary stored for an issue, whichever request takes it, and  *)
(* a request goes on from its document-cache lookup to the computation     *)
(* only while the stored summary is absent or empty.                       *)
(***************************************************************************)
C14_DocumentSummaryWriteOnce ==
    [][/\ \A n \in DOMAIN summaries :
              Truthy(summaries[n].summary)
                  => /\ Has(summaries', n)
                     /\ summaries'[n].summary = summaries[n].summary
       /\ \A p \in Procs :
              (req[p].pc = "CheckDocumentCache" /\ req'[p].pc = "Fetch")
                  => ~Truthy(StoredSummary(summaries, req[p].issueNumber))]_vars

(***************************************************************************)
(* C15.  The chunk cache is append-only: no step replaces a non-empty      *)
(* summary stored under <<issueNumber, chunkIndex>> with another text.     *)
(***************************************************************************)
C15_ChunkCacheAppendOnly ==
    [][\A k \in DOMAIN chunkColl :
           Truthy(chunkColl[k]) => Has(chunkColl', k) /\ chunkColl'[k] = chunkColl[k]]_vars

(***************************************************************************)
(* C16.  A summarizer call that gives no usable text (it throws, the       *)
(* response has no choice, or the content is missing or empty) ends the    *)
(* request in Failed at that call: it is the last operation of the         *)
(* request, so that neither a chunk-cache entry nor a document summary is  *)
(* written from it.                                                        *)
(***************************************************************************)
C16_UnusableResponseFails ==
    \A p \in Procs :
        LET r == req[p]
        IN  \A e \in 1..Len(r.log) :
                (r.log[e].op = "summarize" /\ ~Truthy(r.log[e].content))
                    => /\ r.pc = "Failed"
                       /\ r.failedOp = "summarize"
                       /\ r.failedIndex = r.log[e].index
                       /\ e = Len(r.log)

(***************************************************************************)
(* C17.  A request whose extracted text is empty or whitespace only splits *)
(* it into zero chunks, reads no chunk from the cache and calls the        *)
(* summarizer for none, assembles the empty summary and, unless the        *)
(* document-cache write fails, ends in Done; a streaming handler announces *)
(* totalChunks = 0.                                                        *)
(***************************************************************************)
C17_EmptyDocument ==
    \A p \in Procs :
        LET r == req[p]
        IN  (AllWhitespace(PdfText(r.pdfUrl)) /\ Attempted(r, "split"))
            => /\ Len(r.chunks) = 0
               /\ ~Attempted(r, "chunkRead")
               /\ ~Attempted(r, "summarize")
               /\ r.pc \in {"StoreDocumentCache", "Done", "Failed"}
               /\ r.fullSummary = <<>>
               /\ r.pc = "Failed" => r.failedOp = "docWrite"
               /\ r.handler \in Streaming => r.body[1].n = 0

(***************************************************************************)
(* C18.  Only a complete summary is stored: the document cache changes     *)
(* only in the step in which a request completes its document-cache write, *)
(* and that request then holds one chunk result for every index 0..n-1 of  *)
(* its own split, each the cached text it found or the answer it got for   *)
(* that chunk, and stores their join in index order.  A step that ends a   *)
(* request in Failed leaves the document cache as it is, and a request     *)
(* that failed in its loop never attempted the document-cache write.       *)
(***************************************************************************)
C18_NoPartialDocumentSummary ==
    /\ [](\A p \in Procs :
              (req[p].pc = "Failed" /\ req[p].failedOp # "docWrite")
                  => ~Attempted(req[p], "docWrite"))
    /\ [][/\ summaries' # summaries => \E p \in Procs : WroteDocument(p)
          /\ \A p \in Procs :
                 /\ (Stepped(p) /\ req'[p].pc = "Failed") => summaries' = summaries
                 /\ WroteDocument(p) =>
                        LET r == req[p]
                            n == Len(r.chunks)
                        IN  /\ n > 0
                            /\ Len(r.chunkSummaries) = n
                            /\ \A j \in 1..n :
                                   /\ r.chunkSummaries[j].index = j - 1
                                   /\ r.chunkSummaries[j].content =
                                          IF SummarizerCalls(r.log, j - 1) > 0
                                          THEN ReplyFor(r, j - 1)
                                          ELSE r.pre[j - 1]
                            /\ IsJoinOf(summaries'[r.issueNumber].summary,
                                        [j \in 1..n |-> r.chunkSummaries[j].content],
                                        ParagraphSeparator)]_vars

\* a stored summary of three chunks, one of them taken from the chunk cache
C18_Witness ==
    /\ req[1].pc = "Done"
    /\ Len(req[1].chunks) = 3
    /\ Attempted(req[1], "docWrite")
    /\ Cardinality(PreCached(req[1])) = 1
    /\ StoredSummary(summaries, req[1].issueNumber) = req[1].fullSummary
    /\ Len(req[1].fullSummary) = 7

(***************************************************************************)
(* C19.  The error responses of one handler tell the kinds of failure      *)
(* apart: two requests that failed for different kinds of reason (the      *)
(* fetch, the extraction, the summarizer, the store) carry different error *)
(* messages.                                                               *)
(***************************************************************************)
FailureKind(op) ==
    CASE op = "fetch" -> "fetch"
      [] op = "extract" -> "extraction"
      [] op = "summarize" -> "summarizer"
      [] op \in {"connect", "docRead", "chunkRead", "chunkWrite", "docWrite"} -> "cache"
      [] OTHER -> "none"

\* the error message the caller finds in the response, "" when there is none
ErrorMessageOf(r) ==
    LET errors == {k \in 1..Len(r.body) : r.body[k].kind \in {"errorTail", "jsonError"}}
    IN  IF errors = {} THEN <<>>
        ELSE r.body[CHOOSE k \in errors : \A j \in errors : j <= k].content

C19_DistinctErrorPerKind ==
    \A p, o \in Procs :
        (/\ req[p].pc = "Failed" /\ req[o].pc = "Failed"
         /\ req[p].handler = req[o].handler
         /\ FailureKind(req[p].failedOp) # FailureKind(req[o].failedOp))
        => ErrorMessageOf(req[p]) # ErrorMessageOf(req[o])

(***************************************************************************)
(* C20.  The page takes only a completely received final summary as the    *)
(* result: when the body it read parses and holds the summary, it shows    *)
(* that summary and marks the record (hasSummary, summaryPreview); for     *)
(* every other body (an error body, a body that ends with an error member, *)
(* a body cut off by a dropped connection) it shows the failure message    *)
(* and leaves the record as it was.                                        *)
(***************************************************************************)
ReceivedFinal(received) ==
    /\ ValidJson(BodyTokens(received))
    /\ \E k \in 1..Len(received) : received[k].kind \in {"jsonSummary", "string"}

C20_PageNeedsFinalRecord ==
    [][page' # page =>
          LET received == page'.received
              n == req[1].issueNumber
          IN  IF ReceivedFinal(received)
              THEN /\ page'.selectedSummary = ParsedSummary(received)
                   /\ n \in DOMAIN page.records => page'.records[n].hasSummary
              ELSE /\ page'.selectedSummary = FailureMessage
                   /\ page'.records = page.records]_vars


(***************************************************************************)
(* C21.  The two modes run the same algorithm.  A non-streaming request    *)
(* and a streaming request that found the same cache entries, split into   *)
(* the same number of chunks (what the same text and the same maxWords     *)
(* give; the chunk texts are used as summarizer input only), got the same  *)
(* answers from the summarizer and had the same operation fail, if any,    *)
(* attempted the same sequence of cache reads, summarizer calls and cache  *)
(* writes, left the same entries in both caches, and the value the         *)
(* non-streaming one returned is the final record of the stream.           *)
(***************************************************************************)
\* the answers request r got from the summarizer, by chunk index
Answers(r) ==
    [j \in {e \in 0..(Len(r.chunks) - 1) : SummarizerCalls(r.log, e) > 0} |-> ReplyFor(r, j)]

SameRun(a, b) ==
    /\ a.pc \in {"Done", "Failed"} /\ b.pc \in {"Done", "Failed"}
    /\ a.pre = b.pre /\ a.preDoc = b.preDoc
    /\ Len(a.chunks) = Len(b.chunks)
    /\ a.failedOp = b.failedOp /\ a.failedIndex = b.failedIndex
    /\ \A j \in (DOMAIN Answers(a)) \cap (DOMAIN Answers(b)) : Answers(a)[j] = Answers(b)[j]

C21_SameAlgorithmInBothModes ==
    LET a == req[1]
        b == req[2]
    IN  (a.handler = "part_002" /\ b.handler \in Streaming /\ SameRun(a, b))
        => /\ a.log = b.log
           /\ a.pc = b.pc
           /\ StoredChunks(chunkColl, a.issueNumber) = StoredChunks(chunkColl, b.issueNumber)
           /\ Has(summaries, a.issueNumber) = Has(summaries, b.issueNumber)
           /\ StoredSummary(summaries, a.issueNumber) = StoredSummary(summaries, b.issueNumber)
           /\ a.pc = "Done" =>
                  /\ ReceivedComplete(a) /\ ReceivedComplete(b)
                  /\ ReceivedSummary(a) = ReceivedSummary(b)

\* two chunks in both modes, the first found in the chunk cache, the second
\* summarized, and the same summary of two paragraphs returned by both
C21_Witness ==
    /\ req[1].handler = "part_002" /\ req[2].handler \in Streaming
    /\ SameRun(req[1], req[2])
    /\ req[1].pc = "Done"
    /\ Len(req[1].chunks) = 2
    /\ PreCached(req[1]) = {0}
    /\ DOMAIN Answers(req[2]) = {1}
    /\ Truthy(Answers(req[2])[1])
    /\ Attempted(req[2], "docWrite")
    /\ ReceivedSummary(req[2]) = req[1].fullSummary


(***************************************************************************)
(* C22.  The states of a request are passed in one direction.  An accepted *)
(* request starts with the document-cache lookup (the connection to the    *)
(* store and the read); every step then either ends it in Failed or moves  *)
(* it to a later state of the order CheckDocumentCache, Fetch, Extract     *)
(* (with the split), PerChunk 0 .. n-1 (lookup, summarizer call, write),   *)
(* StoreDocumentCache (with the assembly before it), Done; a request in    *)
(* Done, Failed or Rejected takes no step.                                 *)
(***************************************************************************)
\* place of the state of request r in the order of the states
StateRank(r) ==
    CASE r.pc = "Connect" -> 0
      [] r.pc = "CheckDocumentCache" -> 1
      [] r.pc = "Fetch" -> 2
      [] r.pc = "Extract" -> 3
      [] r.pc = "CheckChunkCache" -> 4 + 3 * r.i
      [] r.pc = "Summarize" -> 5 + 3 * r.i
      [] r.pc = "WriteChunkCache" -> 6 + 3 * r.i
      [] r.pc = "StoreDocumentCache" -> 4 + 3 * Len(r.chunks)
      [] r.pc = "Done" -> 5 + 3 * Len(r.chunks)
      [] OTHER -> -1

C22_StatesPassedForward ==
    [][\A p \in Procs :
          Stepped(p) =>
              IF started' # started
              THEN req'[p].pc \in {"Connect", "Rejected"}
              ELSE /\ InFlight(req[p])
                   /\ \/ req'[p].pc = "Failed"
                      \/ /\ req'[p].pc \in {"CheckDocumentCache", "Fetch", "Extract",
                                             "CheckChunkCache", "Summarize",
                                             "WriteChunkCache", "StoreDocumentCache", "Done"}
                         /\ StateRank(req'[p]) > StateRank(req[p])
                         /\ req'[p].pc \in {"CheckChunkCache", "Summarize", "WriteChunkCache"}
                                => req'[p].i \in 0..(Len(req'[p].chunks) - 1)]_vars

\* a request that went through every state: three chunks, the first from
\* the chunk cache, the others summarized and written, the summary stored
C22_Witness ==
    /\ req[1].pc = "Done"
    /\ Len(req[1].chunks) = 3
    /\ IndicesOf(req[1].log, "chunkRead") = <<0, 1, 2>>
    /\ IndicesOf(req[1].log, "summarize") = <<1, 2>>
    /\ IndicesOf(req[1].log, "chunkWrite") = <<1, 2>>
    /\ Attempted(req[1], "fetch") /\ Attempted(req[1], "extract")
    /\ Attempted(req[1], "docWrite")


(***************************************************************************)
(* C23.  The chunks of a request are processed strictly one after the      *)
(* other.  The lookups are made for 0, 1, 2, ... in this order; when the   *)
(* lookup for chunk j is made, chunk j-1 is complete: its lookup, its      *)
(* summarizer call and its cache write (on a miss) were made before, in    *)
(* this order, its result is in the list of results and, in a streaming    *)
(* handler, its progress record has been written.  A summarizer call for   *)
(* chunk j directly follows the lookup for j and the cache write directly  *)
(* follows the call, so at most one chunk is pending at any time.          *)
(***************************************************************************)
ChunkOps == {"chunkRead", "summarize", "chunkWrite"}

\* positions of the log of r with operation op on chunk j
At(r, op, j) == {k \in 1..Len(r.log) : r.log[k].op = op /\ r.log[k].index = j}

\* chunks whose lookup was made and whose result is not yet in the list
Pending(r) ==
    {j \in 0..(Len(r.chunks) - 1) :
        At(r, "chunkRead", j) # {} /\ \A e \in 1..Len(r.chunkSummaries) : r.chunkSummaries[e].index # j}

\* the chunk indices of the progress records written so far, in order
ChunkEventIndices(body) ==
    LET ev == Events(body)
        at == {k \in 1..Len(ev) : ev[k].event = "chunk"}
    IN  [e \in 1..Cardinality(at) |->
            ev[CHOOSE k \in at : Cardinality({x \in at : x <= k}) = e].n]

C23_ChunksOneAfterTheOther ==
    \A p \in Procs :
        LET r == req[p]
        IN  /\ IndicesOf(r.log, "chunkRead") = [e \in 1..Len(IndicesOf(r.log, "chunkRead")) |-> e - 1]
            /\ \A k \in 1..Len(r.log) :
                   LET j == r.log[k].index
                   IN  /\ r.log[k].op = "summarize" =>
                              /\ r.log[k - 1].op = "chunkRead" /\ r.log[k - 1].index = j
                              /\ Cardinality(At(r, "summarize", j)) = 1
                       /\ r.log[k].op = "chunkWrite" =>
                              r.log[k - 1].op = "summarize" /\ r.log[k - 1].index = j
                       /\ (r.log[k].op = "chunkRead" /\ j > 0) =>
                              /\ r.log[k - 1].op \in {"chunkRead", "chunkWrite"}
                              /\ r.log[k - 1].index = j - 1
            /\ Cardinality(Pending(r)) <= 1
            /\ r.pc \in {"CheckChunkCache", "Summarize", "WriteChunkCache"} =>
                   /\ Len(r.chunkSummaries) = r.i
                   /\ \A e \in 1..r.i : r.chunkSummaries[e].index = e - 1
                   /\ Pending(r) \subseteq {r.i}
                   /\ r.handler \in Streaming =>
                          ChunkEventIndices(r.body) = [e \in 1..r.i |-> e - 1]

\* the lookup for the second chunk is about to be made in a streaming
\* handler: chunk 0 was looked up, summarized and written, and its progress
\* record is out
C23_Witness ==
    /\ req[1].handler \in Streaming
    /\ req[1].pc = "CheckChunkCache"
    /\ req[1].i = 1
    /\ IndicesOf(req[1].log, "chunkRead") = <<0>>
    /\ SummarizerCalls(req[1].log, 0) = 1
    /\ At(req[1], "chunkWrite", 0) # {}
    /\ ChunkEventIndices(req[1].body) = <<0>>

(***************************************************************************)
(* C24.  The final summary is stored before it is announced.  No final     *)
(* summary record is in a response before the request is Done; the step    *)
(* that delivers the final summary S of a request that computed it is the  *)
(* step in which its document-cache write completes, the write stored S    *)
(* under the issue of the request, and no later step of the request        *)
(* exists.  (A request served from the document cache delivers the stored  *)
(* summary and writes nothing.)                                            *)
(***************************************************************************)
\* the request computed its summary: it was not served from the document cache
Computed(r) == Attempted(r, "fetch")

HasFinalPiece(r) == \E k \in 1..Len(r.body) : r.body[k].kind \in FinalPieces

C24_StoredBeforeAnnounced ==
    /\ [](\A p \in Procs :
              LET r == req[p]
              IN  /\ HasFinalPiece(r) => r.pc = "Done"
                  /\ (r.pc = "Done" /\ Computed(r)) =>
                         /\ ReceivedComplete(r)
                         /\ r.log[Len(r.log)].op = "docWrite"
                         /\ r.log[Len(r.log)].content = ReceivedSummary(r)
                         /\ r.failedOp = "none")
    /\ [][\A p \in Procs :
             (req[p].pc # "Done" /\ req'[p].pc = "Done") =>
                 /\ Has(summaries', req'[p].issueNumber)
                 /\ summaries'[req'[p].issueNumber].summary = ReceivedSummary(req'[p])
                 /\ Computed(req'[p]) =>
                        /\ req[p].pc = "StoreDocumentCache"
                        /\ req[p].fullSummary = ReceivedSummary(req'[p])]_vars

\* a streaming request that computed a summary of two chunks, stored it and
\* then delivered it
C24_Witness ==
    /\ req[1].handler \in Streaming
    /\ req[1].pc = "Done"
    /\ Computed(req[1])
    /\ Len(req[1].chunks) = 2
    /\ Truthy(ReceivedSummary(req[1]))
    /\ req[1].preDoc # ReceivedSummary(req[1])
    /\ StoredSummary(summaries, req[1].issueNumber) = ReceivedSummary(req[1])


(***************************************************************************)
(* C25.  A failure of the PDF download or of the text extraction changes   *)
(* nothing: the step in which it happens leaves both caches as they are    *)
(* and ends the request in Failed; the request has made no summarizer call *)
(* and no cache write, the caches hold what they held when it arrived, and *)
(* the response is a plain error response: status 500 and one JSON error   *)
(* object, with no start record, in the streaming handlers too.            *)
(***************************************************************************)
FailedBeforeText(r) == r.pc = "Failed" /\ r.failedOp \in {"fetch", "extract"}

C25_FetchExtractFailureChangesNothing ==
    /\ [](\A p \in Procs :
              LET r == req[p]
              IN  FailedBeforeText(r) =>
                      /\ \A k \in 1..Len(r.log) : r.log[k].op \in {"docRead", "fetch", "extract"}
                      /\ r.log[Len(r.log)].op = r.failedOp
                      /\ r.chunks = <<>>
                      /\ r.status = 500 /\ r.ended = "end" /\ ~r.headersSent
                      /\ Len(r.body) = 1 /\ r.body[1].kind = "jsonError"
                      /\ WellFormedBody(r))
    /\ [][\A p \in Procs :
             (Stepped(p) /\ FailedBeforeText(req'[p])) =>
                 /\ req[p].pc \in {"Fetch", "Extract"}
                 /\ summaries' = summaries /\ chunkColl' = chunkColl
                 /\ StoredChunks(chunkColl', req[p].issueNumber) = req[p].pre
                 /\ StoredSummary(summaries', req[p].issueNumber) = req[p].preDoc]_vars

\* the extraction fails in a streaming handler while chunk summaries of an
\* earlier request are stored
C25_Witness ==
    /\ req[1].handler \in Streaming
    /\ req[1].pc = "Failed" /\ req[1].failedOp = "extract"
    /\ Attempted(req[1], "fetch")
    /\ DOMAIN req[1].pre # {}
    /\ StoredChunks(chunkColl, req[1].issueNumber) = req[1].pre
    /\ req[1].body = <<Piece("jsonError", 0, req[1].body[1].content)>>


(***************************************************************************)
(* C26.  The chunk cache is used by key alone.  No step removes a chunk    *)
(* entry, and an entry changes only in the chunk write of a request for    *)
(* its key.  A request that finds a non-empty entry under its issue and    *)
(* index j takes it as the summary of its chunk j and makes no summarizer  *)
(* call for j, also when the entry was stored by the request before it     *)
(* from another text: the chunk j of a split of the same PDF with the      *)
(* other default of maxWords.  The summary it then stores holds that text. *)
(***************************************************************************)
\* the text of chunk j in the request summarized in `last`, "" when its
\* split has no chunk j
SourceChunk(l, j) ==
    LET chunks == splitIntoChunks(PdfText(l.pdfUrl), DefaultMaxWords(l.handler))
    IN  IF j < Len(chunks) THEN chunks[j + 1] ELSE <<>>

\* chunk j of request r is cached, the entry was stored by the request
\* before r, and that request computed it from another text than r's chunk j
Misaligned(r, j) ==
    /\ last.handler \in Handlers
    /\ last.issueNumber = r.issueNumber
    /\ j \in PreCached(r) /\ j \notin last.preStored
    /\ j < Len(r.chunks)
    /\ SourceChunk(last, j) # r.chunks[j + 1]

C26_CachedChunkReusedByKeyAlone ==
    /\ [](\A p \in Procs :
              LET r == req[p]
              IN  \A j \in 0..(Len(r.chunkSummaries) - 1) :
                      Misaligned(r, j) =>
                          /\ r.chunkSummaries[j + 1].content = r.pre[j]
                          /\ SummarizerCalls(r.log, j) = 0
                          /\ chunkColl[ChunkKey(r.issueNumber, j)] = r.pre[j]
                          /\ (r.pc = "Done" /\ Computed(r)) =>
                                 IsJoinOf(StoredSummary(summaries, r.issueNumber),
                                          [e \in 1..Len(r.chunks) |-> r.chunkSummaries[e].content],
                                          ParagraphSeparator))
    /\ [][/\ DOMAIN chunkColl \subseteq DOMAIN chunkColl'
          /\ \A k \in Changed(chunkColl, chunkColl') :
                 \E p \in Procs : WroteChunk(p) /\ k = ChunkKey(req[p].issueNumber, req[p].i)]_vars

\* part_002 (one word per chunk) summarized chunk 0 and failed; a streaming
\* handler (two words per chunk) then takes that entry for its chunk 0 and
\* stores a document summary that begins with it
C26_Witness ==
    /\ last.handler = "part_002" /\ last.pdfUrl = "u1"
    /\ req[1].handler \in Streaming /\ req[1].pdfUrl = "u1"
    /\ req[1].pc = "Done" /\ Computed(req[1])
    /\ Misaligned(req[1], 0)
    /\ SourceChunk(last, 0) = <<"a">>
    /\ req[1].chunks[1] = <<"a", " ", "a">>
    /\ SummarizerCalls(req[1].log, 0) = 0
    /\ StoredSummary(summaries, req[1].issueNumber) = req[1].fullSummary
    /\ SubSeq(req[1].fullSummary, 1, Len(req[1].pre[0])) = req[1].pre[0]


(***************************************************************************)
(* C27.  No retry inside a request.  A request calls the summarizer at     *)
(* most once for each chunk index, whatever the call gives.  When a call   *)
(* fails (it throws), the request is Failed in that step, the step changes *)
(* no cache, the failed call is the last operation of the request, and the *)
(* request takes no further step: no summarizer call and no cache write    *)
(* follows.                                                                *)
(***************************************************************************)
C27_NoRetryInsideRequest ==
    /\ [](\A p \in Procs :
              LET r == req[p]
              IN  /\ \A j \in 0..(Len(r.chunks) - 1) : SummarizerCalls(r.log, j) <= 1
                  /\ r.failedOp = "summarize" =>
                         /\ r.pc = "Failed"
                         /\ r.log[Len(r.log)].op = "summarize"
                         /\ r.log[Len(r.log)].index = r.failedIndex
                         /\ \A k \in 1..(Len(r.log) - 1) :
                                r.log[k].op = "summarize" => r.log[k].index < r.failedIndex)
    /\ [][\A p \in Procs :
             /\ (req[p].pc = "Summarize" /\ req'[p].pc = "Failed") =>
                    /\ req'[p].failedOp = "summarize"
                    /\ summaries' = summaries /\ chunkColl' = chunkColl
             /\ (req[p].pc = "Failed" /\ started' = started) => req'[p] = req[p]]_vars

\* the call for the second chunk fails after the first chunk was summarized
\* and written; the request has ended with one call per chunk
C27_Witness ==
    /\ req[1].pc = "Failed"
    /\ req[1].failedOp = "summarize" /\ req[1].failedIndex = 1
    /\ IndicesOf(req[1].log, "summarize") = <<0, 1>>
    /\ IndicesOf(req[1].log, "chunkWrite") = <<0>>
    /\ DOMAIN StoredChunks(chunkColl, req[1].issueNumber) = {0}
    /\ ~Has(summaries, req[1].issueNumber)


(***************************************************************************)
(* C28.  Termination.  When every awaited operation returns or fails, a    *)
(* request in flight reaches Done or Failed, and its response is ended     *)
(* exactly when it does: a request in flight has not ended its response, a *)
(* request that has ended it has stopped for good.  A request that waits   *)
(* for the summarizer can do nothing but take the answer of that call:     *)
(* until the call returns it stays at its chunk, and no lookup, call or    *)
(* write for a later chunk is made.                                        *)
(***************************************************************************)
\* the steps of the request in slot p other than the return of the summarizer
OtherStep(p) ==
    \/ ConnectToDatabase(p)
    \/ CheckDocumentCache(p)
    \/ Fetch(p)
    \/ Extract(p)
    \/ CheckChunkCache(p)
    \/ WriteChunkCache(p)
    \/ StoreDocumentCache(p)

C28_Termination ==
    /\ \A p \in Procs : InFlight(req[p]) ~> Finished(req[p])
    /\ [](\A p \in Procs :
              LET r == req[p]
              IN  /\ (r.pc \in Terminal) <=> (r.ended \in {"end", "errored"})
                  /\ InFlight(r) => r.ended = "no"
                  /\ r.pc = "Summarize" =>
                         /\ ENABLED Summarize(p)
                         /\ ~ENABLED OtherStep(p)
                         /\ \A k \in 1..Len(r.log) :
                                r.log[k].op \in ChunkOps => r.log[k].index <= r.i)
    /\ [][\A p \in Procs :
             /\ req[p].pc \in Terminal => req'[p] = req[p]
             /\ (req[p].pc = "Summarize" /\ Stepped(p)) =>
                    /\ Len(req'[p].log) = Len(req[p].log) + 1
                    /\ req'[p].log[Len(req'[p].log)].op = "summarize"
                    /\ req'[p].log[Len(req'[p].log)].index = req[p].i]_vars

\* both requests have ended, the streaming one after two chunks, one of
\* them with a failure after the first write
C28_Witness ==
    /\ \A p \in Procs : Finished(req[p]) /\ req[p].ended # "no"
    /\ Len(req[2].chunks) = 2
    /\ \E p \in Procs : req[p].pc = "Done" /\ Computed(req[p])
    /\ \E p \in Procs : req[p].pc = "Failed" /\ req[p].failedOp = "summarize"


(***************************************************************************)
(* C29.  The two caches agree: whenever the document cache holds a summary *)
(* for an issue, the chunk cache holds entries for the indices 0..n-1 of   *)
(* that issue and the summary is their join, in index order, with the      *)
(* paragraph separator.                                                    *)
(***************************************************************************)
C29_CachesConsistent ==
    \A n \in DOMAIN summaries :
        LET stored == StoredChunks(chunkColl, n)
            count == Cardinality(DOMAIN stored)
        IN  /\ DOMAIN stored = 0..(count - 1)
            /\ summaries[n].summary = JoinWith([j \in 1..count |-> stored[j - 1]], ParagraphSeparator)


(***************************************************************************)
(* C30.  A request gets a summary of its own document.  A request for      *)
(* (pdfUrl, issueNumber) that is answered from the document cache is       *)
(* answered with a summary that a request for the same pdfUrl stored, and  *)
(* a chunk summary it takes from the chunk cache was stored by a request   *)
(* for the same pdfUrl.  Two records with one issueNumber and different    *)
(* volume numbers are two PDFs requested under one issueNumber.            *)
(***************************************************************************)
C30_SummaryOfOwnDocument ==
    \A p \in Procs :
        LET r == req[p]
        IN  r.pc = "Done" =>
                /\ ~Computed(r) => summaries[r.issueNumber].pdfUrl = r.pdfUrl
                /\ \A j \in 0..(Len(r.chunks) - 1) :
                       (/\ SummarizerCalls(r.log, j) = 0
                        /\ last.issueNumber = r.issueNumber
                        /\ j \notin last.preStored)
                           => last.pdfUrl = r.pdfUrl


(***************************************************************************)
(* C32.  Rejected requests have no effect.  A summarize request whose      *)
(* method is not POST is answered 405, one whose pdfUrl or issueNumber is  *)
(* missing or falsy is answered 400; the answer is given before the store  *)
(* is connected, before any cache is read or written, before the PDF is    *)
(* fetched and before the summarizer is called (the request has attempted  *)
(* no operation), and the step that rejects leaves both caches and the     *)
(* database handle as they were.                                           *)
(***************************************************************************)
\* the method of request r is refused (the route is exported as POST only)
WrongMethod(r) == r.handler # "route" /\ r.method # "POST"

\* !pdfUrl || !issueNumber
MissingFields(r) == r.pdfUrl = "" \/ r.issueNumber = 0

C32_RejectedRequestsNoEffect ==
    /\ [](\A p \in Procs :
              LET r == req[p]
              IN  /\ (r.pc # "Idle" /\ (WrongMethod(r) \/ MissingFields(r))) =>
                         /\ r.pc = "Rejected"
                         /\ r.status = IF WrongMethod(r) THEN 405 ELSE 400
                  /\ r.pc = "Rejected" =>
                         /\ r.log = <<>>
                         /\ r.status \in {400, 405}
                         /\ r.ended = "end"
                         /\ Len(r.body) = 1 /\ r.body[1].kind = "jsonError"
                         /\ r.chunks = <<>> /\ r.chunkSummaries = <<>>)
    /\ [][\A p \in Procs :
             (req'[p].pc = "Rejected" /\ req'[p] # req[p]) =>
                 /\ summaries' = summaries
                 /\ chunkColl' = chunkColl
                 /\ cachedDb' = cachedDb]_vars

\* a request without a PDF URL is rejected after an earlier request has
\* filled both caches, which are as that request left them
C32_Witness ==
    /\ req[1].pc = "Rejected"
    /\ req[1].status = 400
    /\ req[1].pdfUrl = ""
    /\ req[1].log = <<>>
    /\ started = 2
    /\ last.pc = "Done"
    /\ DocSummaryHit(summaries, last.issueNumber)
    /\ DOMAIN chunkColl # {}


(***************************************************************************)
(* Ingestion.  fetchAndStoreRecords fetches the list of daily records and  *)
(* stores it.  Both modules call it when they are loaded, and the cron     *)
(* handler (part_001), which imports pages/api/summarizeRecords, calls it  *)
(* for an authorized GET.  A run is one call; every server instance that   *)
(* loads a module starts one.  The server applies the upserts of a         *)
(* bulkWrite one after the other, and without a unique index an upsert is  *)
(* a query followed by an insert, as findOne and insertOne are: operations *)
(* of another client can fall between the two.                             *)
(***************************************************************************)
Versions == {"summarizeRecords", "fetchAndStoreReports"}

\* fetchCongressionalRecords(retries = 3), its only caller passes nothing
Retries == 3

\* 2000 * Math.pow(2, i)
BackoffBase == 2000

Backoff(i) == BackoffBase * 2^i

\* the answers of the list request that have the expected format
Listings == StringsUpTo(RecordKeys, MaxListed)

CronMethods == {"GET", "POST"}

\* req.headers.authorization; CronSecretHeader is `Bearer ${CRON_SECRET}`
CronSecretHeader == "Bearer secret"

CronAuthorizations == {CronSecretHeader, "Bearer wrong", "undefined"}

\* what the collection holds when the process starts
StoredAtStart ==
    {<<>>,
     <<[Record(<<1, 1>>, 0) EXCEPT !.summary = <<"S">>, !.summaryEmbedding = <<1, 0>>]>>}

\* the positions of the records that match {issueNumber, volumeNumber}
Matching(coll, doc) ==
    {j \in 1..Len(coll) : /\ coll[j].issueNumber = doc.issueNumber
                          /\ coll[j].volumeNumber = doc.volumeNumber}

\* an update with $set: the fetched fields replace the stored ones
SetMatched(coll, j, doc) ==
    [coll EXCEPT ![j] = [@ EXCEPT !.fetchedAt = doc.fetchedAt, !.contents = doc.contents]]

\* {$setOnInsert: record} on a record that matched: nothing is set
SetOnInsertMatched(coll, j, doc) == coll

\* collection.insertOne(record), and the insert of an upsert
InsertOne(coll, doc) == Append(coll, doc)

\* reports.filter(report => report !== null): the reports whose contents
\* request did not fail, in the order of the list
RECURSIVE Reports(_, _, _, _)
Reports(listed, failed, k, at) ==
    IF k > Len(listed) THEN <<>>
    ELSE (IF k \in failed THEN <<>> ELSE <<Record(listed[k], at)>>)
         \o Reports(listed, failed, k + 1, at)

\* a catch block that never gives up
LastAttemptNever(i) == FALSE

\* i === retries - 1
LastAttempt(i) == i = Retries - 1

\* the first run slot that is free
FreeRun == CHOOSE r \in RunIds : ingest.runs[r].pc = "Idle" /\ \A q \in 1..(r - 1) : ingest.runs[q].pc # "Idle"

HasFreeRun == \E r \in RunIds : ingest.runs[r].pc = "Idle"

NewRun(version, trigger) == [NoRun EXCEPT !.pc = "List", !.version = version, !.trigger = trigger]

SetRun(r, run) == [ingest EXCEPT !.runs[r] = run]

\* A server instance loads module v: the call at the end of the module
\* starts a run.
LoadModule(v) ==
    /\ HasFreeRun
    /\ ingest' = [ingest EXCEPT !.runs[FreeRun] = NewRun(v, "load"),
                                !.loaded = @ \cup {v}]
    /\ UNCHANGED <<summaries, chunkColl, req, started, last, cachedDb, pure, page, records, search, ui>>

\* The cron handler gets a request; its module has been loaded, and with
\* it the module it imports.
CronRequest(m, a) ==
    /\ ingest.cron.pc \in {"Idle", "Answered"}
    /\ "summarizeRecords" \in ingest.loaded
    /\ LET c == [NoCron EXCEPT !.method = m, !.authorization = a]
       IN  IF m # "GET"
           THEN ingest' = [ingest EXCEPT !.cron = [c EXCEPT !.pc = "Answered", !.status = 405]]
           ELSE IF a # CronSecretHeader
           THEN ingest' = [ingest EXCEPT !.cron = [c EXCEPT !.pc = "Answered", !.status = 401]]
           ELSE /\ HasFreeRun
                /\ ingest' = [ingest EXCEPT
                                 !.cron = [c EXCEPT !.pc = "Awaiting", !.run = FreeRun],
                                 !.runs[FreeRun] = NewRun("summarizeRecords", "cron")]
    /\ UNCHANGED <<summaries, chunkColl, req, started, last, cachedDb, pure, page, records, search, ui>>

\* await fetchAndStoreRecords() has settled
CronRespond ==
    /\ ingest.cron.pc = "Awaiting"
    /\ ingest.runs[ingest.cron.run].pc = "Done"
    /\ ingest' = [ingest EXCEPT !.cron.pc = "Answered",
                                !.cron.status = IF ingest.runs[ingest.cron.run].threw
                                                THEN 500 ELSE 200]
    /\ UNCHANGED <<summaries, chunkColl, req, started, last, cachedDb, pure, page, records, search, ui>>

\* One attempt at the list request.  summarizeRecords.js: an answer in the
\* expected format leads to the contents requests; a failed request or an
\* answer in another format is caught, and the catch block returns [] after
\* the last attempt and otherwise waits before the next one (a loop that
\* ends otherwise returns undefined).  fetchAndStoreReports.js makes one
\* attempt and returns [] when it fails.
ListRequest(r) ==
    /\ ingest.runs[r].pc = "List"
    /\ LET run == [ingest.runs[r] EXCEPT !.attempts = @ + 1]
       IN  IF run.version = "summarizeRecords"
           THEN \/ \E l \in Listings :
                      ingest' = SetRun(r, [run EXCEPT !.listed = l, !.pc = "Contents"])
                \/ ingest' = SetRun(r,
                      IF LastAttempt(run.i)
                      THEN [run EXCEPT !.returned = "empty", !.pc = "Store"]
                      ELSE [run EXCEPT !.waits = Append(@, Backoff(run.i)),
                                       !.i = @ + 1,
                                       !.returned = IF run.i + 1 < Retries
                                                    THEN "none" ELSE "undefined",
                                       !.pc = IF run.i + 1 < Retries
                                              THEN "List" ELSE "Store"])
           ELSE \/ \E l \in Listings :
                      ingest' = SetRun(r, [run EXCEPT !.listed = l,
                                                      !.fetched = Reports(l, {}, 1, r),
                                                      !.returned = "records",
                                                      !.pc = "Store"])
                \/ ingest' = SetRun(r, [run EXCEPT !.returned = "empty", !.pc = "Store"])
    /\ UNCHANGED <<summaries, chunkColl, req, started, last, cachedDb, pure, page, records, search, ui>>

\* Promise.all over the list: every contents request settles, and the ones
\* that failed give null
ContentRequests(r) ==
    /\ ingest.runs[r].pc = "Contents"
    /\ \E failed \in SUBSET (1..Len(ingest.runs[r].listed)) :
          ingest' = SetRun(r, [ingest.runs[r] EXCEPT
                                  !.fetched = Reports(ingest.runs[r].listed, failed, 1, r),
                                  !.returned = "records",
                                  !.pc = "Store"])
    /\ UNCHANGED <<summaries, chunkColl, req, started, last, cachedDb, pure, page, records, search, ui>>

\* storeRecordsInMongo(records): nothing to do for an empty list (and
\* records.length throws for undefined); otherwise the store is connected.
\* summarizeRecords.js connects outside its try block.
StoreRecords(r) ==
    /\ ingest.runs[r].pc = "Store"
    /\ LET run == Returned(ingest.runs[r])
       IN  IF run.returned = "undefined"
           THEN ingest' = SetRun(r, Settled(run, TRUE))
           ELSE IF Len(run.fetched) = 0
           THEN ingest' = SetRun(r, Settled(run, FALSE))
           ELSE \/ ingest' = SetRun(r, [run EXCEPT !.pc = "Find", !.k = 1, !.ops = @ + 1])
                \/ ingest' = SetRun(r, Settled([run EXCEPT !.ops = @ + 1],
                                                run.version = "summarizeRecords"))
    /\ UNCHANGED <<summaries, chunkColl, req, started, last, cachedDb, pure, page, records, search, ui>>

\* the run goes on to its next record, or has stored them all
NextRecord(run) ==
    IF run.k = Len(run.fetched)
    THEN Settled(run, FALSE)
    ELSE [run EXCEPT !.pc = "Find", !.k = @ + 1]

\* The query of the k-th operation: findOne({issueNumber, volumeNumber}),
\* or the filter of the k-th upsert.  A record that matches is left as it
\* is; an error is caught and ends the run.
FindRecord(r) ==
    /\ ingest.runs[r].pc = "Find"
    /\ LET run == [ingest.runs[r] EXCEPT !.ops = @ + 1]
           doc == run.fetched[run.k]
           found == Matching(records, doc)
       IN  \/ /\ found # {}
              /\ records' = IF run.version = "summarizeRecords"
                            THEN SetOnInsertMatched(records, CHOOSE j \in found : TRUE, doc)
                            ELSE records
              /\ ingest' = SetRun(r, NextRecord(run))
           \/ /\ found = {}
              /\ records' = records
              /\ ingest' = SetRun(r, [run EXCEPT !.pc = "Insert"])
           \/ /\ records' = records
              /\ ingest' = SetRun(r, Settled(run, FALSE))
    /\ UNCHANGED <<summaries, chunkColl, req, started, last, cachedDb, pure, page, search, ui>>

\* the insert of the k-th operation
InsertRecord(r) ==
    /\ ingest.runs[r].pc = "Insert"
    /\ LET run == [ingest.runs[r] EXCEPT !.ops = @ + 1]
       IN  \/ /\ records' = InsertOne(records, run.fetched[run.k])
              /\ ingest' = SetRun(r, NextRecord(run))
           \/ /\ records' = records
              /\ ingest' = SetRun(r, Settled(run, FALSE))
    /\ UNCHANGED <<summaries, chunkColl, req, started, last, cachedDb, pure, page, search, ui>>

\* the step of run r
RunStep(r) ==
    \/ ListRequest(r)
    \/ ContentRequests(r)
    \/ StoreRecords(r)
    \/ FindRecord(r)
    \/ InsertRecord(r)

InitIngest ==
    /\ summaries = <<>>
    /\ chunkColl = <<>>
    /\ req = [p \in Procs |-> NoRequest]
    /\ started = 0
    /\ last = NoLast
    /\ cachedDb = FALSE
    /\ pure = NoPure
    /\ page = NoPage
    /\ records \in StoredAtStart
    /\ ingest = NoIngest
    /\ search = NoSearch
    /\ ui = NoUi

\* runs that overlap in time
NextIngest ==
    \/ \E v \in Versions : LoadModule(v)
    \/ \E m \in CronMethods, a \in CronAuthorizations : CronRequest(m, a)
    \/ CronRespond
    \/ \E r \in RunIds : RunStep(r)

SpecIngest == InitIngest /\ [][NextIngest]_vars

\* no run is under way
Quiet == \A r \in RunIds : ingest.runs[r].pc \in {"Idle", "Done"}

\* runs one after the other: a run starts when the one before has ended
NextIngestSequential ==
    \/ Quiet /\ \E v \in Versions : LoadModule(v)
    \/ Quiet /\ \E m \in CronMethods, a \in CronAuthorizations : CronRequest(m, a)
    \/ CronRespond
    \/ \E r \in RunIds : RunStep(r)

SpecIngestSequential == InitIngest /\ [][NextIngestSequential]_vars


(***************************************************************************)
(* C33.  Ingestion never overwrites an existing record.  Whatever the runs *)
(* fetch, and however many runs there are one after the other, a stored    *)
(* record keeps every field (its summary and summaryEmbedding included);   *)
(* the collection changes only by the insertion of one record whose        *)
(* (issueNumber, volumeNumber) no stored record has; and a run that        *)
(* fetched nothing ends without a store operation.                         *)
(***************************************************************************)
C33_IngestionNeverOverwrites ==
    [][/\ Len(records') >= Len(records)
       /\ \A j \in 1..Len(records) : records'[j] = records[j]
       /\ Len(records') > Len(records) =>
              /\ Len(records') = Len(records) + 1
              /\ Matching(records, records'[Len(records')]) = {}
       /\ \A r \in RunIds :
              (/\ ingest.runs[r].pc = "Store"
               /\ ingest.runs[r].fetched = <<>>
               /\ ingest'.runs[r] # ingest.runs[r]) =>
                  /\ ingest'.runs[r].pc = "Done"
                  /\ ingest'.runs[r].ops = 0
                  /\ records' = records]_vars

\* the first run has inserted volume 2; the second run fetched both volumes
\* and its first upsert has matched the record stored before the process
\* started, which still has its summary, its embedding and its fetchedAt
C33_Witness ==
    /\ ingest.runs[1].pc = "Done"
    /\ ingest.runs[2].version = "summarizeRecords"
    /\ ingest.runs[2].pc = "Find"
    /\ ingest.runs[2].k = 2
    /\ ingest.runs[2].fetched = <<Record(<<1, 1>>, 2), Record(<<1, 2>>, 2)>>
    /\ Len(records) = 2
    /\ records[1] \in {st[1] : st \in StoredAtStart \ {<<>>}}
    /\ records[2] = Record(<<1, 2>>, 1)

(***************************************************************************)
(* C34.  No duplicate records: whatever runs have happened, one after the  *)
(* other or overlapping, no two stored records have the same               *)
(* (issueNumber, volumeNumber).                                            *)
(***************************************************************************)
C34_NoDuplicateRecords ==
    \A j, k \in 1..Len(records) :
        (/\ records[j].issueNumber = records[k].issueNumber
         /\ records[j].volumeNumber = records[k].volumeNumber) => j = k

(***************************************************************************)
(* C35.  Ingestion runs only on an authorized trigger: every run was       *)
(* started by the cron handler for a GET request whose Authorization       *)
(* header is "Bearer " and CRON_SECRET; a request with another method is   *)
(* answered 405 and one with another header 401, and neither starts a run. *)
(***************************************************************************)
C35_IngestionOnlyOnAuthorizedTrigger ==
    /\ \A r \in RunIds : ingest.runs[r].pc # "Idle" => ingest.runs[r].trigger = "cron"
    /\ ingest.cron.pc = "Answered" =>
           /\ ingest.cron.status = 405 <=> ingest.cron.method # "GET"
           /\ ingest.cron.status = 401 <=> (/\ ingest.cron.method = "GET"
                                            /\ ingest.cron.authorization # CronSecretHeader)
           /\ ingest.cron.status \in {401, 405} => ingest.cron.run = 0

(***************************************************************************)
(* C36.  Bounded retry of the list request.  fetchCongressionalRecords of  *)
(* summarizeRecords.js makes at most 3 attempts; after failed attempt i    *)
(* (from 0) it waits 2000 * 2^i ms, except after the last; it returns on   *)
(* the first attempt that succeeds, with the listed records whose contents *)
(* request did not fail, in order; after the last failed attempt it        *)
(* returns the empty list; it never throws (a run throws only in the store *)
(* part).  A failed contents request is no attempt.                        *)
(***************************************************************************)
C36_BoundedRetry ==
    \A r \in RunIds :
        LET run == ingest.runs[r]
        IN  /\ run.returned # "undefined"
            /\ run.threw => run.ops > 0
            /\ (run.version = "summarizeRecords" /\ run.pc \in {"List", "Contents", "Store"}) =>
                   /\ run.attempts <= 3
                   /\ Len(run.waits) <= 2
                   /\ \A j \in 1..Len(run.waits) : run.waits[j] = 2000 * 2^(j - 1)
                   /\ run.pc = "List" => run.attempts = Len(run.waits)
                   /\ run.pc = "Contents" => run.attempts = Len(run.waits) + 1
                   /\ run.pc = "Store" =>
                          /\ run.returned \in {"records", "empty"}
                          /\ run.returned = "empty" =>
                                 /\ run.attempts = 3
                                 /\ run.waits = <<2000, 4000>>
                                 /\ run.fetched = <<>>
                          /\ run.returned = "records" =>
                                 /\ run.attempts = Len(run.waits) + 1
                                 /\ \E failed \in SUBSET (1..Len(run.listed)) :
                                        /\ run.fetched = Reports(run.listed, failed, 1, r)
                                        /\ Len(run.fetched) = Len(run.listed) - Cardinality(failed)

\* two attempts failed and were followed by waits of 2000 and 4000 ms, the
\* third listed two records, and the contents request of the first failed
C36_Witness ==
    \E r \in RunIds :
        /\ ingest.runs[r].version = "summarizeRecords"
        /\ ingest.runs[r].pc = "Store"
        /\ ingest.runs[r].returned = "records"
        /\ ingest.runs[r].attempts = 3
        /\ ingest.runs[r].waits = <<2000, 4000>>
        /\ ingest.runs[r].listed = <<<<1, 1>>, <<1, 2>>>>
        /\ ingest.runs[r].fetched = <<Record(<<1, 2>>, r)>>


(***************************************************************************)
(* Search (pages/api/searchRecords.js) and the record listing              *)
(* (pages/api/getRecords.js).  A search reads up to 250 records; a blank   *)
(* query returns the first `limit` of them; with a query and no OpenAI key *)
(* the records that contain the query are returned; with a key the query   *)
(* is embedded, every record's embedding is taken from the record or       *)
(* computed and stored, and the records are ranked by cosine similarity.   *)
(* A similarity dot / (sqrt(normA) * sqrt(normB)) is kept as the pair of   *)
(* dot and normA * normB, and two similarities are compared exactly by     *)
(* their signed squares.  The order by issueDate is the order of storage.  *)
(***************************************************************************)
\* { limit = 40 } = req.body
DefaultLimit == 40

\* .limit(250)
FindLimit == 250

\* the largest limit a request names
MaxLimit == 1

\* records stored when the searches begin
MaxStored == 2

\* search requests in one behaviour
MaxSearches == 2

SearchMethods == {"POST", "GET"}

Queries == {<<>>, <<" ">>, <<"K", " ">>}

SearchLimits == {DefaultLimit} \cup 1..MaxLimit

\* the embeddings the embedding service returns
EmbeddingReplies == {<<1, 0>>, <<0, 1>>}

\* summary, summaryEmbedding and contents of the stored records: a record
\* without summary whose contents name "k", a summary without embedding, and
\* summaries with an embedding
SearchKinds ==
    {[summary |-> <<>>, summaryEmbedding |-> NoEmbedding, contents |-> <<"k">>],
     [summary |-> <<"k">>, summaryEmbedding |-> NoEmbedding, contents |-> <<>>],
     [summary |-> <<"x">>, summaryEmbedding |-> <<1, 1>>, contents |-> <<>>],
     [summary |-> <<"K", "x">>, summaryEmbedding |-> <<1, 0>>, contents |-> <<>>]}

SearchStores ==
    {[j \in 1..Len(kinds) |->
        [Record(<<1, j>>, 0) EXCEPT !.summary = kinds[j].summary,
                                    !.summaryEmbedding = kinds[j].summaryEmbedding,
                                    !.contents = kinds[j].contents]] :
     kinds \in StringsUpTo(SearchKinds, MaxStored)}

Lower(c) == IF c = "K" THEN "k" ELSE c

ToLowerCase(str) == [j \in 1..Len(str) |-> Lower(str[j])]

RECURSIVE TrimStart(_)
TrimStart(str) ==
    IF str # <<>> /\ IsSpace(str[1]) THEN TrimStart(Tail(str)) ELSE str

RECURSIVE TrimEnd(_)
TrimEnd(str) ==
    IF str # <<>> /\ IsSpace(str[Len(str)])
    THEN TrimEnd(SubSeq(str, 1, Len(str) - 1)) ELSE str

\* String.prototype.trim
Trim(str) == TrimEnd(TrimStart(str))

\* String.prototype.includes
Includes(text, q) ==
    \E o \in 0..(Len(text) - Len(q)) : SubSeq(text, o + 1, o + Len(q)) = q

\* record.summary?.toLowerCase().includes(lowered) ||
\* JSON.stringify(record.contents || {}).toLowerCase().includes(lowered)
HasKeyword(doc, lowered) ==
    \/ doc.summary # <<>> /\ Includes(ToLowerCase(doc.summary), lowered)
    \/ Includes(ToLowerCase(doc.contents), lowered)

RECURSIVE Dot(_, _, _)
Dot(a, b, k) == IF k > Len(a) THEN 0 ELSE a[k] * b[k] + Dot(a, b, k + 1)

\* cosineSimilarity(a, b); null for a missing vector, vectors of different
\* lengths or a vector of norm 0
cosineSimilarity(a, b) ==
    IF a = NoEmbedding \/ b = NoEmbedding \/ Len(a) # Len(b) THEN NoSimilarity
    ELSE IF Dot(a, a, 1) = 0 \/ Dot(b, b, 1) = 0 THEN NoSimilarity
    ELSE [num |-> Dot(a, b, 1), den |-> Dot(a, a, 1) * Dot(b, b, 1)]

SignedSquare(x) == IF x < 0 THEN -(x * x) ELSE x * x

\* similarity s is less than similarity t
LessSimilar(s, t) == SignedSquare(s.num) * t.den < SignedSquare(t.num) * s.den

\* Array.prototype.sort with (a, b) => b.similarity - a.similarity: stable,
\* the greater similarity first
RECURSIVE InsertBySimilarity(_, _)
InsertBySimilarity(sorted, x) ==
    IF Len(sorted) = 0 THEN <<x>>
    ELSE IF LessSimilar(sorted[Len(sorted)].similarity, x.similarity)
         THEN Append(InsertBySimilarity(SubSeq(sorted, 1, Len(sorted) - 1), x),
                     sorted[Len(sorted)])
         ELSE Append(sorted, x)

RECURSIVE SortBySimilarity(_)
SortBySimilarity(items) ==
    IF Len(items) = 0 THEN <<>>
    ELSE InsertBySimilarity(SortBySimilarity(SubSeq(items, 1, Len(items) - 1)),
                            items[Len(items)])

\* a record of the result with its similarity
Scored(item, similarity) == [id |-> item.id, doc |-> item.doc, similarity |-> similarity]

\* the map and the filter of the keyword branch: similarity 1 for a record
\* with the keyword and 0 otherwise, and the records with similarity > 0 stay
RECURSIVE KeywordMatches(_, _, _)
KeywordMatches(found, lowered, k) ==
    IF k > Len(found) THEN <<>>
    ELSE (IF HasKeyword(found[k].doc, lowered)
          THEN <<Scored(found[k], [num |-> 1, den |-> 1])>> ELSE <<>>)
         \o KeywordMatches(found, lowered, k + 1)

\* the payload of the response
Payload(results) ==
    [j \in 1..Len(results) |->
        [id |-> results[j].id, similarity |-> results[j].similarity,
         hasSummary |-> results[j].doc.summary # <<>>]]

\* the handler has answered: its locals are gone
Answered(sr, status, results) ==
    [sr EXCEPT !.pc = "Done", !.status = status, !.data = Payload(results),
               !.found = <<>>, !.k = 0, !.queryEmbedding = NoEmbedding,
               !.pending = NoEmbedding, !.scored = <<>>]

\* the catch block of the handler
SearchFailed(sr) == Answered(sr, 500, <<>>)

\* a test that never finds a stored embedding
HasEmbeddingNever(doc) == FALSE

\* if (record.summaryEmbedding) return record.summaryEmbedding
HasEmbedding(doc) == doc.summaryEmbedding # NoEmbedding

\* the record of the loop is scored with its embedding and the loop goes on
ScoreRecord(sr, embedding) ==
    LET similarity == cosineSimilarity(sr.queryEmbedding, embedding)
    IN  [sr EXCEPT !.scored = IF similarity = NoSimilarity THEN @
                              ELSE Append(@, Scored(sr.found[sr.k], similarity)),
                   !.k = @ + 1, !.pending = NoEmbedding, !.pc = "Ensure"]

\* A search request arrives; the method is checked.
SearchRequest(m, q, l) ==
    /\ search.pc \in {"Idle", "Done"}
    /\ search.n < MaxSearches
    /\ LET sr == [search EXCEPT !.method = m, !.query = q, !.limit = l, !.n = @ + 1,
                                !.status = 0, !.data = <<>>]
       IN  search' = IF m # "POST" THEN Answered(sr, 405, <<>>)
                     ELSE [sr EXCEPT !.pc = "Find"]
    /\ UNCHANGED <<summaries, chunkColl, req, started, last, cachedDb, pure, page, records, ingest, ui>>

\* connectToDatabase and find().sort().limit(250).toArray().  What follows
\* for a blank query and without an OpenAI key has no await: the handler
\* answers in the same step.
FindRecords ==
    /\ search.pc = "Find"
    /\ LET all == [j \in 1..Len(records) |-> [id |-> j, doc |-> records[j]]]
           found == Slice(all, 0, FindLimit)
           sr == [search EXCEPT !.found = found]
           lowered == ToLowerCase(Trim(sr.query))
       IN  \/ search' =
                IF Trim(sr.query) = <<>>
                THEN Answered(sr, 200,
                         Slice([j \in 1..Len(found) |-> Scored(found[j], NoSimilarity)],
                               0, sr.limit))
                ELSE IF ~sr.openai
                THEN Answered(sr, 200, KeywordMatches(found, lowered, 1))
                ELSE [sr EXCEPT !.pc = "QueryEmbedding"]
           \/ search' = SearchFailed(search)
    /\ UNCHANGED <<summaries, chunkColl, req, started, last, cachedDb, pure, page, records, ingest, ui>>

\* queryEmbedding = await createEmbedding(query): an embedding, null for an
\* answer without one, or an error
QueryEmbedding ==
    /\ search.pc = "QueryEmbedding"
    /\ \/ \E e \in EmbeddingReplies \cup {NoEmbedding} :
             search' = [search EXCEPT !.queryEmbedding = e, !.k = 1, !.pc = "Ensure"]
       \/ search' = SearchFailed(search)
    /\ UNCHANGED <<summaries, chunkColl, req, started, last, cachedDb, pure, page, records, ingest, ui>>

\* The head of the loop and ensureRecordEmbedding up to its call of
\* createEmbedding; after the loop the scored records are sorted and cut.
EnsureRecord ==
    /\ search.pc = "Ensure"
    /\ search' =
          IF search.k > Len(search.found)
          THEN Answered(search, 200, Slice(SortBySimilarity(search.scored), 0, search.limit))
          ELSE LET doc == search.found[search.k].doc
               IN  IF HasEmbedding(doc) THEN ScoreRecord(search, doc.summaryEmbedding)
                   ELSE IF doc.summary = <<>> THEN [search EXCEPT !.k = @ + 1]
                   ELSE [search EXCEPT !.pc = "Embed"]
    /\ UNCHANGED <<summaries, chunkColl, req, started, last, cachedDb, pure, page, records, ingest, ui>>

\* embedding = await createEmbedding(record.summary)
EmbedRecord ==
    /\ search.pc = "Embed"
    /\ LET sr == [search EXCEPT !.calls = Append(@, [id |-> search.found[search.k].id,
                                                     n |-> search.n, stored |-> FALSE])]
       IN  \/ \E e \in EmbeddingReplies :
                 search' = [sr EXCEPT !.pending = e, !.pc = "StoreEmbedding"]
           \/ search' = [sr EXCEPT !.k = @ + 1, !.pc = "Ensure"]
           \/ search' = SearchFailed(sr)
    /\ UNCHANGED <<summaries, chunkColl, req, started, last, cachedDb, pure, page, records, ingest, ui>>

\* updateOne({_id: record._id}, {$set: {summaryEmbedding: embedding}})
StoreEmbedding ==
    /\ search.pc = "StoreEmbedding"
    /\ LET id == search.found[search.k].id
       IN  \/ /\ records' = [records EXCEPT ![id].summaryEmbedding = search.pending]
              /\ search' = ScoreRecord([search EXCEPT !.calls[Len(search.calls)].stored = TRUE],
                                       search.pending)
           \/ /\ records' = records
              /\ search' = SearchFailed(search)
    /\ UNCHANGED <<summaries, chunkColl, req, started, last, cachedDb, pure, page, ingest, ui>>

\* getRecords.js: find({}).sort({issueDate: -1}).toArray(), answered 200
\* with all records, or 500
ListRecords ==
    /\ search.pc \in {"Idle", "Done"}
    /\ \/ search' = [search EXCEPT !.listing = [status |-> 200, count |-> Len(records)]]
       \/ search' = [search EXCEPT !.listing = [status |-> 500, count |-> 0]]
    /\ UNCHANGED <<summaries, chunkColl, req, started, last, cachedDb, pure, page, records, ingest, ui>>

\* the step of the search handler
SearchStep ==
    \/ FindRecords
    \/ QueryEmbedding
    \/ EnsureRecord
    \/ EmbedRecord
    \/ StoreEmbedding

InitSearch ==
    /\ summaries = <<>>
    /\ chunkColl = <<>>
    /\ req = [p \in Procs |-> NoRequest]
    /\ started = 0
    /\ last = NoLast
    /\ cachedDb = FALSE
    /\ pure = NoPure
    /\ page = NoPage
    /\ records \in SearchStores
    /\ ingest = NoIngest
    /\ \E key \in BOOLEAN : search = [NoSearch EXCEPT !.openai = key]
    /\ ui = NoUi

\* searches one after the other, and listings between them
NextSearch ==
    \/ \E m \in SearchMethods, q \in Queries, l \in SearchLimits : SearchRequest(m, q, l)
    \/ SearchStep
    \/ ListRecords

SpecSearch == InitSearch /\ [][NextSearch]_vars


(***************************************************************************)
(* C37.  Search result bound and order.  A search answered 200 returns at  *)
(* most `limit` records; for a query that is not blank every returned      *)
(* record has a similarity, a record is not followed by one of greater     *)
(* similarity, and every returned record has a summary (and, when the      *)
(* embeddings are used, a stored embedding).  The statement is made for    *)
(* the embedding branch and for the keyword branch.                        *)
(***************************************************************************)
C37_SearchBoundAndOrder ==
    (search.pc = "Done" /\ search.status = 200) =>
        /\ Len(search.data) <= search.limit
        /\ Trim(search.query) # <<>> =>
               /\ \A j \in 1..Len(search.data) :
                      /\ search.data[j].similarity # NoSimilarity
                      /\ search.data[j].hasSummary
                      /\ search.openai =>
                             records[search.data[j].id].summaryEmbedding # NoEmbedding
               /\ \A j \in 1..(Len(search.data) - 1) :
                      ~LessSimilar(search.data[j].similarity, search.data[j + 1].similarity)

(***************************************************************************)
(* C39.  Record embeddings are computed at most once.  The embedding       *)
(* service is called for a record only when the record has a summary and   *)
(* no stored summaryEmbedding; the only write of a search sets the         *)
(* summaryEmbedding of that record to the embedding the call returned;     *)
(* once the result of a call is stored no search calls the service for     *)
(* that record again; a record without a summary gets neither a call nor a *)
(* write.                                                                  *)
(***************************************************************************)
C39_EmbeddingsComputedOnce ==
    /\ [](\A j \in 1..Len(search.calls) :
              LET c == search.calls[j]
              IN  /\ records[c.id].summary # <<>>
                  /\ c.stored => records[c.id].summaryEmbedding # NoEmbedding
                  /\ c.stored => \A k \in (j + 1)..Len(search.calls) : search.calls[k].id # c.id)
    /\ [][/\ Len(search'.calls) > Len(search.calls) =>
                 LET c == search'.calls[Len(search'.calls)]
                 IN  /\ records[c.id].summary # <<>>
                     /\ records[c.id].summaryEmbedding = NoEmbedding
           /\ records' # records =>
                 /\ search.pending # NoEmbedding
                 /\ Len(search.calls) > 0
                 /\ LET id == search.calls[Len(search.calls)].id
                    IN  /\ records[id].summary # <<>>
                        /\ records[id].summaryEmbedding = NoEmbedding
                        /\ records' = [records EXCEPT ![id].summaryEmbedding = search.pending]]_vars

\* the first search has computed and stored the embedding of record 1; the
\* second search has ranked record 1 without a call
C39_Witness ==
    /\ search.n = 2
    /\ search.pc = "Done" /\ search.status = 200
    /\ search.openai
    /\ Trim(search.query) # <<>>
    /\ search.calls = <<[id |-> 1, n |-> 1, stored |-> TRUE]>>
    /\ records[1].summaryEmbedding \in EmbeddingReplies
    /\ \E j \in 1..Len(search.data) : search.data[j].id = 1


(***************************************************************************)
(* The page's flag per issue (pages/index.js and its earlier version       *)
(* part_000).  A click on the summary button of a card calls summarizePdf, *)
(* which sets loadingSummaries[issueNumber] to true, sends the request and *)
(* in its finally block sets the flag to false.  React renders the update  *)
(* of a click before it delivers the next event, so a click sees the       *)
(* button as the flags of the click before left it.                        *)
(***************************************************************************)
\* clicks on summary buttons in one behaviour
MaxClicks == 3

\* how a request settles: a body with a summary, an error answer, or a
\* request or a parse that throws
Outcomes == {"summary", "error", "throw"}

\* a button that is never disabled
DisabledNever(loading, n) == FALSE

\* disabled={ loadingSummaries[ record.issueNumber ] }
Disabled(loading, n) == loading[n] = "true"

\* onClick of the button of card c: summarizePdf(pdfUrl, record.issueNumber)
\* up to its await
ClickSummary(c) ==
    /\ ui.clicks < MaxClicks
    /\ ~Disabled(ui.loadingSummaries, CardIssues[c])
    /\ ui' = [ui EXCEPT !.loadingSummaries[CardIssues[c]] = "true",
                        !.inflight[CardIssues[c]] = @ + 1,
                        !.clicks = @ + 1]
    /\ UNCHANGED <<summaries, chunkColl, req, started, last, cachedDb, pure, page, records, ingest, search>>

\* a request for issue n settles: try or catch set selectedSummary, and the
\* finally block resets the flag
SettleSummary(n, outcome) ==
    /\ ui.inflight[n] > 0
    /\ ui' = [ui EXCEPT !.loadingSummaries[n] = "false",
                        !.selectedSummary = CASE outcome = "summary" -> "summary"
                                              [] outcome = "error" -> "undefined"
                                              [] OTHER -> "Failed to summarize this document.",
                        !.inflight[n] = @ - 1,
                        !.settled[n] = outcome]
    /\ UNCHANGED <<summaries, chunkColl, req, started, last, cachedDb, pure, page, records, ingest, search>>

\* the Close button of the summary: setSelectedSummary(null)
CloseSummary ==
    /\ ui.selectedSummary # "null"
    /\ ui' = [ui EXCEPT !.selectedSummary = "null"]
    /\ UNCHANGED <<summaries, chunkColl, req, started, last, cachedDb, pure, page, records, ingest, search>>

NextFlags ==
    \/ \E c \in DOMAIN CardIssues : ClickSummary(c)
    \/ \E n \in PageIssues, outcome \in Outcomes : SettleSummary(n, outcome)
    \/ CloseSummary

SpecFlags == Init /\ [][NextFlags]_vars

(***************************************************************************)
(* C38.  The flag of an issue is true exactly while a summarize request of *)
(* the page for that issue has not settled: it is set when summarizePdf    *)
(* starts, it is false after the request has settled, whether with a       *)
(* summary, an error answer or an exception, and while it is true every    *)
(* button of the issue is disabled; so the page has at most one request    *)
(* per issue in flight.                                                    *)
(***************************************************************************)
C38_InFlightFlag ==
    /\ [](\A n \in PageIssues :
              /\ ui.loadingSummaries[n] = "true" <=> ui.inflight[n] > 0
              /\ ui.inflight[n] <= 1
              /\ ui.loadingSummaries[n] = "true" =>
                     \A c \in DOMAIN CardIssues :
                         CardIssues[c] = n => ~ENABLED ClickSummary(c))
    /\ [][\A n \in PageIssues :
             /\ ui'.inflight[n] < ui.inflight[n] => ui'.loadingSummaries[n] = "false"
             /\ ui'.inflight[n] > ui.inflight[n] =>
                    /\ ui.loadingSummaries[n] # "true"
                    /\ ui'.loadingSummaries[n] = "true"]_vars

\* the request for issue 2 threw and its flag is false again, the first
\* request for issue 1 was answered with an error, and a second request for
\* issue 1 is in flight with the flag set
C38_Witness ==
    /\ ui.settled[2] = "throw" /\ ui.loadingSummaries[2] = "false" /\ ui.inflight[2] = 0
    /\ ui.settled[1] = "error"
    /\ ui.loadingSummaries[1] = "true" /\ ui.inflight[1] = 1


(***************************************************************************)
(* All operations on the store.  The summarize handlers write the two      *)
(* caches, ingestion and search write the records, the listing reads.  The *)
(* process serves summarize requests, or runs ingestion, or serves         *)
(* searches and listings: the operations of one kind change nothing the    *)
(* others read in this model.  The store holds one record with a summary   *)
(* and no embedding, and the OpenAI key is configured.                     *)
(***************************************************************************)
StoreRequests == {Request(h, "POST", "u1", 1) : h \in Handlers}

InitStore ==
    /\ summaries = <<>>
    /\ chunkColl = <<>>
    /\ req = [p \in Procs |-> NoRequest]
    /\ started = 0
    /\ last = NoLast
    /\ cachedDb = FALSE
    /\ pure = NoPure
    /\ page = NoPage
    /\ records = <<[Record(<<1, 1>>, 0) EXCEPT !.summary = <<"k">>]>>
    /\ ingest = NoIngest
    /\ search = [NoSearch EXCEPT !.openai = TRUE]
    /\ ui = NoUi

NoSearchYet == search.n = 0 /\ search.listing.status = 0

NextStore ==
    \/ /\ ingest = NoIngest /\ NoSearchYet
       /\ \/ \E q \in StoreRequests : Start(1, q)
          \/ Step(1)
    \/ /\ started = 0 /\ NoSearchYet
       /\ NextIngestSequential
    \/ /\ started = 0 /\ ingest = NoIngest
       /\ NextSearch

SpecStore == InitStore /\ [][NextStore]_vars

(***************************************************************************)
(* C31.  Caches only grow.  No step of a summarize handler, of a search,   *)
(* of the listing or of ingestion, a failing step included, removes a key  *)
(* from the chunk cache, removes an entry of the document cache or a       *)
(* stored summary (of a cache entry or of a record), or removes a record;  *)
(* the step in which a request fails changes neither cache, and every      *)
(* chunk a request has written is in the chunk cache, also after the       *)
(* request has failed.                                                     *)
(***************************************************************************)
\* the chunk indices request r has written to the chunk cache
WrittenBy(r) ==
    {r.log[k].index : k \in {j \in 1..Len(r.log) :
                                /\ r.log[j].op = "chunkWrite"
                                /\ ~(r.failedOp = "chunkWrite" /\ j = Len(r.log))}}

C31_CachesOnlyGrow ==
    /\ [](\A p \in Procs : \A j \in WrittenBy(req[p]) :
              Has(chunkColl, ChunkKey(req[p].issueNumber, j)))
    /\ [][/\ DOMAIN chunkColl \subseteq DOMAIN chunkColl'
           /\ \A n \in DOMAIN summaries :
                 /\ n \in DOMAIN summaries'
                 /\ Truthy(summaries[n].summary) => Truthy(summaries'[n].summary)
           /\ Len(records') >= Len(records)
           /\ \A j \in 1..Len(records) :
                 /\ records'[j].issueNumber = records[j].issueNumber
                 /\ records'[j].volumeNumber = records[j].volumeNumber
                 /\ records'[j].summary = records[j].summary
           /\ \A p \in Procs :
                 (req'[p].pc = "Failed" /\ req[p].pc # "Failed") =>
                     /\ chunkColl' = chunkColl
                     /\ summaries' = summaries]_vars

\* the request has written the summary of chunk 0 and failed at the write of
\* chunk 1: the entry of chunk 0 is in the chunk cache
C31_Witness ==
    /\ req[1].pc = "Failed"
    /\ req[1].failedOp = "chunkWrite" /\ req[1].failedIndex = 1
    /\ WrittenBy(req[1]) = {0}
    /\ DOMAIN chunkColl = {ChunkKey(req[1].issueNumber, 0)}
    /\ ~Has(summaries, req[1].issueNumber)

=============================================================================
